---- MODULE Spec2Model ----
(***************************************************************************)
(* Model of the schedule-conflict utility (parseTime,                      *)
(* findConflictingWorkshops) and of the attendance ("frequência") save     *)
(* path (FrequencyTab, WorkshopFrequencyModal, handleSaveFrequency) of the *)
(* Mais Infância dashboard.                                                *)
(*                                                                         *)
(* Strings the code inspects character by character (Workshop.time) are    *)
(* sequences of one-character strings; strings it only compares for        *)
(* equality (day names, ids, dates) are TLA+ strings.                      *)
(***************************************************************************)
EXTENDS Integers, Sequences, FiniteSets, TLC

\* ------------------------------------------------------------------ bounds

\* Longest list handed to findConflictingWorkshops.
MaxLen == 3

\* Most attendance saves in one behaviour.
MaxSaves == 1

\* Most status clicks between two loads of a view.
MaxClicks == 2

\* Most writes (saves of a session, calls of upsertFrequency) in one behaviour.
MaxWrites == 2

\* Most steps (handlers run, form edits) on the data side in one behaviour.
MaxOps == 3

VARIABLES
    selectedWorkshops,  \* argument of findConflictingWorkshops
    pc,                 \* position inside findConflictingWorkshops
    i,                  \* outer loop index (0-based, as in the code)
    j,                  \* inner loop index (0-based)
    conflicts,          \* the local array of pairs being built
    scan,               \* history: the index pair <<i, j>> behind each push
    result              \* the returned array, once pc = "done"

cvars == <<selectedWorkshops, pc, i, j, conflicts, scan, result>>

VARIABLES
    frequencies,           \* App state: the Frequency[] collection
    activeTab,             \* App state: the tab being shown
    workshopForFrequency,  \* App state: workshop of the open monthly grid, or "null"
    attendanceChanges,     \* WorkshopFrequencyModal state: pending edits, in insertion order
    selectedWorkshopId,    \* FrequencyTab state
    selectedDate,          \* FrequencyTab state
    attendance,            \* FrequencyTab state: the map being edited
    tabEdits,              \* history: the statuses clicked in the tab since attendance was loaded
    lastSave,              \* history: the onSave calls of the latest save
    saves,                 \* history: number of saves made
    clicks                 \* history: status clicks since the view was opened or loaded

avars == <<frequencies, activeTab, workshopForFrequency, attendanceChanges,
           selectedWorkshopId, selectedDate, attendance, tabEdits, lastSave, saves, clicks>>

VARIABLES
    storage,          \* localStorage item 'frequencies', shared by the sessions of a browser
    table,            \* Supabase table public.frequencies: (workshopId, date) -> attendance
    supabaseEnabled,  \* isSupabaseConfigured
    sess,             \* per session (browser tab): whether the App is mounted, and its frequencies state
    writeLog,         \* history: the handleSaveFrequency calls made, in order
    upsertLog         \* history: the upsertFrequency calls made, in order

pvars == <<storage, table, supabaseEnabled, sess, writeLog, upsertLog>>

VARIABLES
    beneficiaries,      \* App state: the Beneficiary[] collection
    educators,          \* App state: the Educator[] collection
    workshops,          \* App state: the Workshop[] collection
    scheduledMessages,  \* App state: the ScheduledMessage[] collection
    modal,              \* the open modal (beneficiary form, transfer, enroll) and its form state
    toast,              \* type of the latest toast
    downloads,          \* the latest backup file downloaded, with (history) the state it was taken from
    document,           \* history: the text given to the latest handleRestoreBackup
    lastOp,             \* history: the latest handler run and what it returned
    ops                 \* history: number of steps taken

dvars == <<beneficiaries, educators, workshops, scheduledMessages, modal, toast,
           downloads, document, lastOp, ops>>

VARIABLES
    integrationTab,   \* whether the IntegrationTab is rendered, and which mount of it this is
    syncStatus,       \* IntegrationTab state
    lastSyncDate,     \* App state: 0 for null, else the time of the latest successful sync
    pendingSyncs,     \* syncWithMcp promises not yet settled, each with the mount that awaits it
    reportsTab,       \* whether the ReportsTab is rendered, and which mount of it this is
    reportData,       \* ReportsTab state: 0 for null, else the report generated at that time
    analysis,         \* ReportsTab state
    isAnalyzing,      \* ReportsTab state
    isLoading,        \* ReportsTab state
    pendingReports,   \* generateReport timers not yet fired, each with the mount that set it
    aiConfigured,     \* geminiService: whether VITE_GOOGLE_API_KEY was set (ai is not null)
    pendingAnalyses,  \* analyzeDataWithGemini promises not yet settled, each with the mount that awaits it
    now,              \* the clock read by new Date()
    toasts,           \* the types of the toasts raised by these handlers, in order
    settled           \* history: the promise settled by the latest step, and how

xvars == <<integrationTab, syncStatus, lastSyncDate, pendingSyncs, reportsTab, reportData,
           analysis, isAnalyzing, isLoading, pendingReports, aiConfigured, pendingAnalyses,
           now, toasts, settled>>

VARIABLES
    clickLog          \* history: the cells clicked in the monthly grid since it opened,
                      \* each with the status it showed before and after the click

gvars == <<clickLog>>

VARIABLES
    loading,              \* AuthGate state
    authed,               \* AuthGate state: the gated content is rendered when it is TRUE
    isPasswordResetMode,  \* AuthGate state
    info,                 \* AuthGate state: which notice is shown, "null" for none
    authError,            \* AuthGate state error: which error is shown, "null" for none
    session,              \* the Supabase client: whether it holds a session
    authCall,             \* the awaited call of AuthGate that is in flight, "none" for none
    recovering,           \* history: a PASSWORD_RECOVERY event came and neither a new password
                          \* was submitted nor a login succeeded since
    authEvents            \* history: how many auth-state-change callbacks the client made by itself

uvars == <<loading, authed, isPasswordResetMode, info, authError, session, authCall,
           recovering, authEvents>>

VARIABLES
    messageToSend,    \* App state: 0 for null, else the id of the message the sender modal shows
    lastRequest       \* history: the recipients of the latest message handed to
                      \* handleScheduleMessage or handleSendMessageNow

mvars == <<messageToSend, lastRequest>>

VARIABLES
    alerts,           \* history: alerts.conflicts as the Dashboard last showed it, -1 before
    summaryStats      \* history: summaryStats.conflicts as the Beneficiaries tab last showed it,
                      \* -1 before

kvars == <<alerts, summaryStats>>

\* The variables of the parts added after the external calls.
lvars == <<gvars, uvars, mvars, kvars>>

\* The variables of the parts added after the data side.
evars == <<xvars, lvars>>

vars == <<cvars, avars, pvars, dvars, evars>>

\* ------------------------------------------------------- time-string input

T_0900_1000 == <<"0","9",":","0","0"," ","-"," ","1","0",":","0","0">>
T_1000_1100 == <<"1","0",":","0","0"," ","-"," ","1","1",":","0","0">>
T_0900_1030 == <<"0","9",":","0","0"," ","-"," ","1","0",":","3","0">>
\* no blanks around the dash, and text around the range: the pattern still matches
T_0900_1100_tight == <<"d","a","s"," ","0","9",":","0","0","-","1","1",":","0","0","h">>
\* end before start
T_1015_1000 == <<"1","0",":","1","5"," ","-"," ","1","0",":","0","0">>
\* end equal to start
T_1000_1000 == <<"1","0",":","0","0"," ","-"," ","1","0",":","0","0">>
\* no range at all ("manhã")
T_manha == <<"m","a","n","h","ã">>
\* one-digit hour: \d{2} does not match
T_900_1000 == <<"9",":","0","0"," ","-"," ","1","0",":","0","0">>

\* The workshops the inputs are drawn from (Workshop: id, days, time).
Catalog ==
    <<  [id |-> "ws1",  days |-> <<"Segunda", "Quarta">>, time |-> T_0900_1000],
        [id |-> "ws2",  days |-> <<"Segunda", "Sexta">>,  time |-> T_1000_1100],
        [id |-> "ws3",  days |-> <<"Quarta", "Sexta">>,   time |-> T_0900_1030],
        [id |-> "ws4",  days |-> <<"Segunda", "Quarta">>, time |-> T_manha],
        [id |-> "ws5",  days |-> <<"Quarta">>,            time |-> T_1015_1000],
        [id |-> "ws6",  days |-> <<"Quarta", "Segunda">>, time |-> T_1000_1000],
        [id |-> "ws7",  days |-> <<"Domingo">>,           time |-> T_0900_1030],
        [id |-> "ws8",  days |-> <<"xyz", "Domingo">>,    time |-> T_1000_1100],
        [id |-> "ws9",  days |-> <<"segunda">>,           time |-> T_0900_1030],
        [id |-> "ws10", days |-> <<"Sexta">>,             time |-> T_0900_1100_tight],
        [id |-> "ws11", days |-> <<"Segunda", "Quarta">>, time |-> T_900_1000] >>

Workshops == { Catalog[k] : k \in 1..Len(Catalog) }

RECURSIVE ListsUpTo(_)
ListsUpTo(n) ==
    IF n = 0 THEN { <<>> }
    ELSE ListsUpTo(n - 1) \cup
         { Append(l, w) : l \in { x \in ListsUpTo(n - 1) : Len(x) = n - 1 }, w \in Workshops }

\* ---------------------------------------------------------------- parseTime

\* \d of the pattern
Digits == {"0", "1", "2", "3", "4", "5", "6", "7", "8", "9"}

DigitVal(c) ==
    CASE c = "0" -> 0 [] c = "1" -> 1 [] c = "2" -> 2 [] c = "3" -> 3 [] c = "4" -> 4
      [] c = "5" -> 5 [] c = "6" -> 6 [] c = "7" -> 7 [] c = "8" -> 8 [] c = "9" -> 9

\* \s of the pattern
IsSpace(c) == c \in {" ", "\t"}

\* \s* : the first position at or after k that holds no blank
RECURSIVE SkipSpaces(_, _)
SkipSpaces(s, k) ==
    IF k <= Len(s) /\ IsSpace(s[k]) THEN SkipSpaces(s, k + 1) ELSE k

\* (\d{2}):(\d{2}) at position k
ClockAt(s, k) ==
    /\ k >= 1
    /\ k + 4 <= Len(s)
    /\ s[k] \in Digits /\ s[k + 1] \in Digits
    /\ s[k + 2] = ":"
    /\ s[k + 3] \in Digits /\ s[k + 4] \in Digits

\* The whole pattern anchored at position p: the four captured groups, or <<>>.
MatchAt(s, p) ==
    IF ~ClockAt(s, p) THEN <<>>
    ELSE LET d == SkipSpaces(s, p + 5) IN
         IF d > Len(s) \/ s[d] # "-" THEN <<>>
         ELSE LET q == SkipSpaces(s, d + 1) IN
              IF ~ClockAt(s, q) THEN <<>>
              ELSE << <<s[p], s[p + 1]>>, <<s[p + 3], s[p + 4]>>,
                      <<s[q], s[q + 1]>>, <<s[q + 3], s[q + 4]>> >>

\* timeStr.match(...): the groups of the leftmost match, or <<>> for null.
RegexMatch(s) ==
    LET hits == { p \in 1..Len(s) : MatchAt(s, p) # <<>> } IN
    IF hits = {} THEN <<>>
    ELSE MatchAt(s, CHOOSE p \in hits : \A q \in hits : p <= q)

\* parseInt(g, 10) of a two-digit group
ParseInt(g) == DigitVal(g[1]) * 10 + DigitVal(g[2])

NullTime == [null |-> TRUE, start |-> 0, end |-> 0]

\* A mis-parse: a string without a range is read as a whole-day range.
parseTimeLenient(timeStr) ==
    LET parts == RegexMatch(timeStr) IN
    IF parts = <<>> THEN [null |-> FALSE, start |-> 0, end |-> 1440]
    ELSE [null  |-> FALSE,
          start |-> ParseInt(parts[1]) * 60 + ParseInt(parts[2]),
          end   |-> ParseInt(parts[3]) * 60 + ParseInt(parts[4])]

\* parseTime: minutes since midnight of both ends, or null.  Two digits always
\* parse, so the isNaN guard of the code never fires.
parseTime(timeStr) ==
    LET parts == RegexMatch(timeStr) IN
    IF parts = <<>> THEN NullTime
    ELSE [null  |-> FALSE,
          start |-> ParseInt(parts[1]) * 60 + ParseInt(parts[2]),
          end   |-> ParseInt(parts[3]) * 60 + ParseInt(parts[4])]

\* ------------------------------------------------- findConflictingWorkshops

Includes(seq, x) == \E k \in 1..Len(seq) : seq[k] = x

\* The six day names the workshop form offers.
weekDays == <<"Segunda", "Terça", "Quarta", "Quinta", "Sexta", "Sábado">>

\* Day test that only counts the names of weekDays.
hasDayConflictVocabulary(w1, w2) ==
    \E k \in 1..Len(w1.days) :
        Includes(weekDays, w1.days[k]) /\ Includes(w2.days, w1.days[k])

\* Day test that ignores the day lists.
hasDayConflictAlways(w1, w2) == TRUE

\* w1.days.some(day => w2.days.includes(day))
hasDayConflict(w1, w2) == \E k \in 1..Len(w1.days) : Includes(w2.days, w1.days[k])

\* One-sided test: the second comparison is forgotten.
hasTimeConflictOneSided(time1, time2) == time1.start < time2.end

\* Closed-interval test: touching ranges overlap.
hasTimeConflictClosed(time1, time2) ==
    (time1.start <= time2.end) /\ (time2.start <= time1.end)

\* (time1.start < time2.end) && (time2.start < time1.end)
hasTimeConflict(time1, time2) ==
    (time1.start < time2.end) /\ (time2.start < time1.end)

\* Inner loop that starts at the first element again.
InnerStartZero(k) == 0

\* let j = i + 1
InnerStart(k) == k + 1

W1 == selectedWorkshops[i + 1]
W2 == selectedWorkshops[j + 1]

\* Early return that hands back the argument wrapped in an array.
EarlyReturnArgument ==
    /\ pc = "call"
    /\ Len(selectedWorkshops) < 2
    /\ result' = IF selectedWorkshops = <<>> THEN <<>>
                 ELSE << <<selectedWorkshops[1], selectedWorkshops[1]>> >>
    /\ pc' = "done"
    /\ UNCHANGED <<selectedWorkshops, i, j, conflicts, scan>>
    /\ UNCHANGED <<avars, pvars, dvars, evars>>

\* if (selectedWorkshops.length < 2) return [];
EarlyReturn ==
    /\ pc = "call"
    /\ Len(selectedWorkshops) < 2
    /\ result' = <<>>
    /\ pc' = "done"
    /\ UNCHANGED <<selectedWorkshops, i, j, conflicts, scan>>
    /\ UNCHANGED <<avars, pvars, dvars, evars>>

\* for (let i = 0; ...
EnterLoops ==
    /\ pc = "call"
    /\ ~(Len(selectedWorkshops) < 2)
    /\ i' = 0
    /\ pc' = "outer"
    /\ UNCHANGED <<selectedWorkshops, j, conflicts, scan, result>>
    /\ UNCHANGED <<avars, pvars, dvars, evars>>

\* i < selectedWorkshops.length holds: for (let j = i + 1; ...
OuterEnter ==
    /\ pc = "outer"
    /\ i < Len(selectedWorkshops)
    /\ j' = InnerStart(i)
    /\ pc' = "inner"
    /\ UNCHANGED <<selectedWorkshops, i, conflicts, scan, result>>
    /\ UNCHANGED <<avars, pvars, dvars, evars>>

\* i < selectedWorkshops.length fails: return conflicts;
OuterExit ==
    /\ pc = "outer"
    /\ ~(i < Len(selectedWorkshops))
    /\ result' = conflicts
    /\ pc' = "done"
    /\ UNCHANGED <<selectedWorkshops, i, j, conflicts, scan>>
    /\ UNCHANGED <<avars, pvars, dvars, evars>>

\* j < selectedWorkshops.length fails: i++
InnerExit ==
    /\ pc = "inner"
    /\ ~(j < Len(selectedWorkshops))
    /\ i' = i + 1
    /\ pc' = "outer"
    /\ UNCHANGED <<selectedWorkshops, j, conflicts, scan, result>>
    /\ UNCHANGED <<avars, pvars, dvars, evars>>

\* if (!time1 || !time2) continue;
SkipUnparsed ==
    /\ pc = "inner"
    /\ j < Len(selectedWorkshops)
    /\ parseTime(W1.time).null \/ parseTime(W2.time).null
    /\ j' = j + 1
    /\ UNCHANGED <<selectedWorkshops, pc, i, conflicts, scan, result>>
    /\ UNCHANGED <<avars, pvars, dvars, evars>>

\* if (!hasDayConflict) continue;
SkipNoDay ==
    /\ pc = "inner"
    /\ j < Len(selectedWorkshops)
    /\ ~parseTime(W1.time).null /\ ~parseTime(W2.time).null
    /\ ~hasDayConflict(W1, W2)
    /\ j' = j + 1
    /\ UNCHANGED <<selectedWorkshops, pc, i, conflicts, scan, result>>
    /\ UNCHANGED <<avars, pvars, dvars, evars>>

\* hasTimeConflict is false: nothing is pushed
SkipNoTime ==
    /\ pc = "inner"
    /\ j < Len(selectedWorkshops)
    /\ ~parseTime(W1.time).null /\ ~parseTime(W2.time).null
    /\ hasDayConflict(W1, W2)
    /\ ~hasTimeConflict(parseTime(W1.time), parseTime(W2.time))
    /\ j' = j + 1
    /\ UNCHANGED <<selectedWorkshops, pc, i, conflicts, scan, result>>
    /\ UNCHANGED <<avars, pvars, dvars, evars>>

\* Push with the pair reversed.
PushConflictReversed ==
    /\ pc = "inner"
    /\ j < Len(selectedWorkshops)
    /\ ~parseTime(W1.time).null /\ ~parseTime(W2.time).null
    /\ hasDayConflict(W1, W2)
    /\ hasTimeConflict(parseTime(W1.time), parseTime(W2.time))
    /\ conflicts' = Append(conflicts, <<W2, W1>>)
    /\ scan' = Append(scan, <<i, j>>)
    /\ j' = j + 1
    /\ UNCHANGED <<selectedWorkshops, pc, i, result>>
    /\ UNCHANGED <<avars, pvars, dvars, evars>>

\* conflicts.push([w1, w2]);
PushConflict ==
    /\ pc = "inner"
    /\ j < Len(selectedWorkshops)
    /\ ~parseTime(W1.time).null /\ ~parseTime(W2.time).null
    /\ hasDayConflict(W1, W2)
    /\ hasTimeConflict(parseTime(W1.time), parseTime(W2.time))
    /\ conflicts' = Append(conflicts, <<W1, W2>>)
    /\ scan' = Append(scan, <<i, j>>)
    /\ j' = j + 1
    /\ UNCHANGED <<selectedWorkshops, pc, i, result>>
    /\ UNCHANGED <<avars, pvars, dvars, evars>>

\* The persistence side at rest.
PersistenceIdle ==
    /\ storage = <<>>
    /\ table = <<>>
    /\ supabaseEnabled = FALSE
    /\ sess = <<>>
    /\ writeLog = <<>>
    /\ upsertLog = <<>>

\* No modal open.
NoModal == [kind |-> "none", target |-> "", cpf |-> "", ids |-> <<>>]

\* No text read yet: a document is a JSON text, described by whether it parses,
\* which top-level keys of the parsed value are truthy, and those keys' values.
NoDocument ==
    [valid |-> FALSE, has |-> {}, beneficiaries |-> <<>>, educators |-> <<>>,
     workshops |-> <<>>, frequencies |-> <<>>, scheduledMessages |-> <<>>]

\* The data side at rest.
DataIdle ==
    /\ beneficiaries = <<>>
    /\ educators = <<>>
    /\ workshops = <<>>
    /\ scheduledMessages = <<>>
    /\ modal = NoModal
    /\ toast = "none"
    /\ downloads = <<>>
    /\ document = NoDocument
    /\ lastOp = [op |-> "none", ok |-> TRUE]
    /\ ops = 0

\* No external call in flight, neither tab rendered.
NotSettled == [call |-> "none", id |-> 0, api |-> "none", outcome |-> "none", mounted |-> FALSE]
ExternalIdle ==
    /\ integrationTab = [open |-> FALSE, instance |-> 0]
    /\ syncStatus = "idle"
    /\ lastSyncDate = 0
    /\ pendingSyncs = {}
    /\ reportsTab = [open |-> FALSE, instance |-> 0]
    /\ reportData = 0
    /\ analysis = ""
    /\ isAnalyzing = FALSE
    /\ isLoading = FALSE
    /\ pendingReports = {}
    /\ aiConfigured = FALSE
    /\ pendingAnalyses = {}
    /\ now = 1
    /\ toasts = <<>>
    /\ settled = NotSettled

\* The monthly grid's history, empty.
GridIdle == clickLog = <<>>

\* AuthGate as constructed, before its effect ran.
AuthIdle ==
    /\ loading = TRUE
    /\ authed = FALSE
    /\ isPasswordResetMode = FALSE
    /\ info = "null"
    /\ authError = "null"
    /\ session = FALSE
    /\ authCall = "none"
    /\ recovering = FALSE
    /\ authEvents = 0

\* No message being sent, none asked for.
NoRequest == [type |-> "none", ids |-> <<>>]
MessagesIdle == messageToSend = 0 /\ lastRequest = NoRequest

\* Neither count shown yet.
CountsIdle == alerts = -1 /\ summaryStats = -1

\* The parts added after the external calls, at rest.
LaterIdle == GridIdle /\ AuthIdle /\ MessagesIdle /\ CountsIdle

\* The parts added after the data side, at rest.
ElseIdle == ExternalIdle /\ LaterIdle

\* The attendance side at rest.
AttendanceIdle ==
    /\ frequencies = <<>>
    /\ activeTab = "oficinas"
    /\ workshopForFrequency = "null"
    /\ attendanceChanges = <<>>
    /\ selectedWorkshopId = ""
    /\ selectedDate = ""
    /\ attendance = <<>>
    /\ tabEdits = <<>>
    /\ lastSave = <<>>
    /\ saves = 0
    /\ clicks = 0

Init ==
    /\ AttendanceIdle
    /\ PersistenceIdle
    /\ DataIdle
    /\ ElseIdle
    /\ selectedWorkshops \in ListsUpTo(MaxLen)
    /\ pc = "call"
    /\ i = 0
    /\ j = 0
    /\ conflicts = <<>>
    /\ scan = <<>>
    /\ result = <<>>

Next ==
    \/ EarlyReturn
    \/ EnterLoops
    \/ OuterEnter
    \/ OuterExit
    \/ InnerExit
    \/ SkipUnparsed
    \/ SkipNoDay
    \/ SkipNoTime
    \/ PushConflict

Spec == Init /\ [][Next]_vars


\* --------------------------------------------------------------- attendance

AttendanceStatus == {"present", "absent", "justified"}
BeneficiaryIds == {"b1", "b2"}
WorkshopIds == <<"w1", "w2">>
Dates == {"2025-11-03", "2025-11-05"}
\* new Date().toLocaleDateString('sv-SE') when the tab mounts
Today == "2025-11-03"

\* beneficiaries.filter(b => b.workshopIds.includes(id)): the rows of a workshop
beneficiariesInWorkshop(id) ==
    IF id = "w1" THEN {"b1", "b2"} ELSE IF id = "w2" THEN {"b2"} ELSE {}

\* Record<string, AttendanceStatus> objects are functions on their own keys.
EmptyMap == <<>>
Has(m, k) == k \in DOMAIN m

\* Spread that forgets the base object.
SpreadOverOnly(base, over) == over

\* { ...base, ...over }
Spread(base, over) ==
    [k \in (DOMAIN base) \cup (DOMAIN over) |-> IF k \in DOMAIN over THEN over[k] ELSE base[k]]

\* A findIndex whose test never matches, and one whose test matches any record.
findIndexNotFound(prev, workshopId, date) == 0
findIndexAny(prev, workshopId, date) == IF Len(prev) > 0 THEN 1 ELSE 0

\* prev.findIndex(f => f.workshopId === workshopId && f.date === date), 1-based, 0 for -1
findIndex(prev, workshopId, date) ==
    LET hits == { k \in 1..Len(prev) : prev[k].workshopId = workshopId /\ prev[k].date = date } IN
    IF hits = {} THEN 0 ELSE CHOOSE k \in hits : \A m \in hits : k <= m

\* Updater that never looks for the record of the key: it always appends.
handleSaveFrequencyAppend(prev, workshopId, date, att) ==
    Append(prev, [workshopId |-> workshopId, date |-> date, attendance |-> att])

\* handleSaveFrequency: the updater handed to setFrequencies
handleSaveFrequency(prev, workshopId, date, att) ==
    LET index == findIndex(prev, workshopId, date) IN
    IF index > 0
    THEN [prev EXCEPT ![index] = [workshopId |-> workshopId, date |-> date, attendance |-> att]]
    ELSE Append(prev, [workshopId |-> workshopId, date |-> date, attendance |-> att])

\* FrequencyTab.currentAttendance: the first record of the key, or {}
currentAttendance(freqs, workshopId, date) ==
    LET index == findIndex(freqs, workshopId, date) IN
    IF index > 0 THEN freqs[index].attendance ELSE EmptyMap

\* Baseline built without the filter on the workshop: every record counts.
initialFrequenciesMapAnyWorkshop(freqs, workshopId) ==
    LET mine == 1..Len(freqs)
        ds   == { freqs[k].date : k \in mine } IN
    [d \in ds |->
        freqs[CHOOSE k \in mine : freqs[k].date = d /\
                 \A m \in mine : freqs[m].date = d => m <= k].attendance]

\* WorkshopFrequencyModal.initialFrequenciesMap: date -> attendance of the
\* workshop's records, a later record of a date overwriting an earlier one
initialFrequenciesMap(freqs, workshopId) ==
    LET mine == { k \in 1..Len(freqs) : freqs[k].workshopId = workshopId }
        ds   == { freqs[k].date : k \in mine } IN
    [d \in ds |->
        freqs[CHOOSE k \in mine : freqs[k].date = d /\
                 \A m \in mine : freqs[m].date = d => m <= k].attendance]

\* attendanceChanges keeps insertion order: a sequence of [date, record] entries.
ChangeIndex(changes, date) ==
    LET hits == { k \in 1..Len(changes) : changes[k].date = date } IN
    IF hits = {} THEN 0 ELSE CHOOSE k \in hits : TRUE

\* attendanceChanges[date] || {}
ChangesOf(changes, date) ==
    IF ChangeIndex(changes, date) > 0 THEN changes[ChangeIndex(changes, date)].record
    ELSE EmptyMap

\* A cycle that skips 'justified'.
nextStatusTwoStates(status) == IF status = "present" THEN "absent" ELSE "present"

\* the cycle of WorkshopFrequencyModal.handleStatusChange
nextStatus(currentStatus) ==
    IF currentStatus = "present" THEN "justified"
    ELSE IF currentStatus = "justified" THEN "absent"
    ELSE "present"

\* Object.entries(attendanceChanges).forEach(... onSave(...)): the updaters
\* queued on setFrequencies, applied in order
RECURSIVE SaveAll(_, _, _, _)
SaveAll(freqs, initial, workshopId, changes) ==
    IF changes = <<>> THEN freqs
    ELSE LET e == Head(changes)
             finalAttendance ==
                 Spread(IF Has(initial, e.date) THEN initial[e.date] ELSE EmptyMap, e.record)
         IN SaveAll(handleSaveFrequency(freqs, workshopId, e.date, finalAttendance),
                    initial, workshopId, Tail(changes))

\* What each onSave call of the grid's save carried.
ModalCalls(freqs, workshopId, changes) ==
    LET initial == initialFrequenciesMap(freqs, workshopId) IN
    [k \in 1..Len(changes) |->
        [workshopId |-> workshopId,
         date       |-> changes[k].date,
         attendance |-> Spread(IF Has(initial, changes[k].date)
                               THEN initial[changes[k].date] ELSE EmptyMap,
                               changes[k].record),
         edits      |-> changes[k].record,
         existing   |-> currentAttendance(freqs, workshopId, changes[k].date),
         existed    |-> findIndex(freqs, workshopId, changes[k].date) > 0]]

\* setActiveTab('frequencia'): FrequencyTab mounts, picks the first active
\* workshop and today's date, and loads the attendance of that key
OpenFrequencyTab ==
    /\ activeTab # "frequencia"
    /\ workshopForFrequency = "null"
    /\ activeTab' = "frequencia"
    /\ selectedWorkshopId' = WorkshopIds[1]
    /\ selectedDate' = Today
    /\ attendance' = currentAttendance(frequencies, WorkshopIds[1], Today)
    /\ tabEdits' = EmptyMap
    /\ UNCHANGED <<frequencies, workshopForFrequency, attendanceChanges, lastSave, saves>>
    /\ clicks' = 0
    /\ UNCHANGED <<cvars, pvars, dvars, evars>>

\* leaving the tab unmounts FrequencyTab
LeaveFrequencyTab ==
    /\ activeTab = "frequencia"
    /\ activeTab' = "oficinas"
    /\ selectedWorkshopId' = ""
    /\ selectedDate' = ""
    /\ attendance' = EmptyMap
    /\ tabEdits' = EmptyMap
    /\ UNCHANGED <<frequencies, workshopForFrequency, attendanceChanges, lastSave, saves>>
    /\ clicks' = 0
    /\ UNCHANGED <<cvars, pvars, dvars, evars>>

\* the workshop select: setSelectedWorkshopId, then the effect reloads attendance
TabSelectWorkshop ==
    /\ activeTab = "frequencia"
    /\ \E k \in 1..Len(WorkshopIds) :
        /\ WorkshopIds[k] # selectedWorkshopId
        /\ selectedWorkshopId' = WorkshopIds[k]
        /\ attendance' = currentAttendance(frequencies, WorkshopIds[k], selectedDate)
    /\ tabEdits' = EmptyMap
    /\ UNCHANGED <<frequencies, activeTab, workshopForFrequency, attendanceChanges,
                   selectedDate, lastSave, saves>>
    /\ clicks' = 0
    /\ UNCHANGED <<cvars, pvars, dvars, evars>>

\* the date input: setSelectedDate (the input may be cleared), then the effect
TabSelectDate ==
    /\ activeTab = "frequencia"
    /\ \E d \in Dates \cup {""} :
        /\ d # selectedDate
        /\ selectedDate' = d
        /\ attendance' = currentAttendance(frequencies, selectedWorkshopId, d)
    /\ tabEdits' = EmptyMap
    /\ UNCHANGED <<frequencies, activeTab, workshopForFrequency, attendanceChanges,
                   selectedWorkshopId, lastSave, saves>>
    /\ clicks' = 0
    /\ UNCHANGED <<cvars, pvars, dvars, evars>>

\* FrequencyTab.handleStatusChange(beneficiaryId, status)
TabStatusChange ==
    /\ clicks < MaxClicks
    /\ activeTab = "frequencia"
    /\ \E b \in beneficiariesInWorkshop(selectedWorkshopId), status \in AttendanceStatus :
        /\ attendance' = Spread(attendance, [x \in {b} |-> status])
        /\ tabEdits' = Spread(tabEdits, [x \in {b} |-> status])
    /\ UNCHANGED <<frequencies, activeTab, workshopForFrequency, attendanceChanges,
                   selectedWorkshopId, selectedDate, lastSave, saves>>
    /\ clicks' = clicks + 1
    /\ UNCHANGED <<cvars, pvars, dvars, evars>>

\* FrequencyTab.handleSave with a workshop and a date selected
TabSave ==
    /\ activeTab = "frequencia"
    /\ selectedWorkshopId # "" /\ selectedDate # ""
    /\ saves < MaxSaves
    /\ frequencies' = handleSaveFrequency(frequencies, selectedWorkshopId, selectedDate, attendance)
    /\ lastSave' = << [workshopId |-> selectedWorkshopId,
                       date       |-> selectedDate,
                       attendance |-> attendance,
                       edits      |-> tabEdits,
                       existing   |-> currentAttendance(frequencies, selectedWorkshopId, selectedDate),
                       existed    |-> findIndex(frequencies, selectedWorkshopId, selectedDate) > 0] >>
    /\ tabEdits' = EmptyMap
    /\ saves' = saves + 1
    /\ UNCHANGED <<activeTab, workshopForFrequency, attendanceChanges,
                   selectedWorkshopId, selectedDate, attendance>>
    /\ clicks' = 0
    /\ UNCHANGED <<cvars, pvars, dvars, evars>>

\* FrequencyTab.handleSave with the date cleared: nothing is written
TabSaveNoKey ==
    /\ activeTab = "frequencia"
    /\ ~(selectedWorkshopId # "" /\ selectedDate # "")
    /\ saves < MaxSaves
    /\ lastSave' = <<>>
    /\ saves' = saves + 1
    /\ UNCHANGED <<frequencies, activeTab, workshopForFrequency, attendanceChanges,
                   selectedWorkshopId, selectedDate, attendance, tabEdits>>
    /\ clicks' = clicks
    /\ UNCHANGED <<cvars, pvars, dvars, evars>>

\* onOpenFrequency(workshop) on the workshops tab: the grid opens and its
\* effect clears the pending edits
OpenFrequencyModal ==
    /\ activeTab = "oficinas"
    /\ workshopForFrequency = "null"
    /\ \E k \in 1..Len(WorkshopIds) : workshopForFrequency' = WorkshopIds[k]
    /\ attendanceChanges' = <<>>
    /\ UNCHANGED <<frequencies, activeTab, selectedWorkshopId, selectedDate, attendance,
                   tabEdits, lastSave, saves>>
    /\ clicks' = 0
    /\ UNCHANGED <<cvars, pvars, dvars, evars>>

\* WorkshopFrequencyModal.handleStatusChange: the status the cell shows
\* (the pending edit, else the stored status, else undefined) ...
currentStatus(freqs, workshopId, changes, b, date) ==
    LET initial == initialFrequenciesMap(freqs, workshopId)
        pending == ChangesOf(changes, date)
    IN IF Has(pending, b) THEN pending[b]
       ELSE IF Has(initial, date) /\ Has(initial[date], b) THEN initial[date][b]
       ELSE "undefined"

\* ... and the pending edits after the click.
handleStatusChange(freqs, workshopId, changes, b, date) ==
    LET entry == [date |-> date,
                  record |-> Spread(ChangesOf(changes, date),
                                    [x \in {b} |->
                                        nextStatus(currentStatus(freqs, workshopId, changes, b, date))])]
    IN IF ChangeIndex(changes, date) > 0
       THEN [changes EXCEPT ![ChangeIndex(changes, date)] = entry]
       ELSE Append(changes, entry)

\* WorkshopFrequencyModal.handleStatusChange(beneficiaryId, date)
ModalStatusChange ==
    /\ clicks < MaxClicks
    /\ workshopForFrequency # "null"
    /\ \E b \in beneficiariesInWorkshop(workshopForFrequency), date \in Dates :
        attendanceChanges' =
            handleStatusChange(frequencies, workshopForFrequency, attendanceChanges, b, date)
    /\ UNCHANGED <<frequencies, activeTab, workshopForFrequency, selectedWorkshopId,
                   selectedDate, attendance, tabEdits, lastSave, saves>>
    /\ clicks' = clicks + 1
    /\ UNCHANGED <<cvars, pvars, dvars, evars>>

\* WorkshopFrequencyModal.handleSave: one onSave per edited date, then onClose.
\* The pending edits of a closed grid are never read again (the effect clears
\* them when the grid next opens), so they are dropped when it closes.
ModalSave ==
    /\ workshopForFrequency # "null"
    /\ saves < MaxSaves
    /\ frequencies' = SaveAll(frequencies,
                              initialFrequenciesMap(frequencies, workshopForFrequency),
                              workshopForFrequency, attendanceChanges)
    /\ lastSave' = ModalCalls(frequencies, workshopForFrequency, attendanceChanges)
    /\ workshopForFrequency' = "null"
    /\ attendanceChanges' = <<>>
    /\ saves' = saves + 1
    /\ UNCHANGED <<activeTab, selectedWorkshopId, selectedDate, attendance, tabEdits>>
    /\ clicks' = 0
    /\ UNCHANGED <<cvars, pvars, dvars, evars>>

\* onClose without saving
ModalClose ==
    /\ workshopForFrequency # "null"
    /\ workshopForFrequency' = "null"
    /\ attendanceChanges' = <<>>
    /\ UNCHANGED <<frequencies, activeTab, selectedWorkshopId,
                   selectedDate, attendance, tabEdits, lastSave, saves>>
    /\ clicks' = 0
    /\ UNCHANGED <<cvars, pvars, dvars, evars>>

\* The stored collections a session may start from (keys unique, as
\* processInitialData generates them).
InitialFrequencies ==
    { <<>>,
      << [workshopId |-> "w1", date |-> "2025-11-03",
          attendance |-> [b \in {"b1", "b2"} |-> IF b = "b1" THEN "present" ELSE "absent"]] >> }

\* findConflictingWorkshops at rest.
ConflictIdle ==
    /\ selectedWorkshops = <<>>
    /\ pc = "done"
    /\ i = 0
    /\ j = 0
    /\ conflicts = <<>>
    /\ scan = <<>>
    /\ result = <<>>

InitAttendance ==
    /\ ConflictIdle
    /\ PersistenceIdle
    /\ DataIdle
    /\ ElseIdle
    /\ frequencies \in InitialFrequencies
    /\ activeTab = "oficinas"
    /\ workshopForFrequency = "null"
    /\ attendanceChanges = <<>>
    /\ selectedWorkshopId = ""
    /\ selectedDate = ""
    /\ attendance = EmptyMap
    /\ tabEdits = EmptyMap
    /\ lastSave = <<>>
    /\ saves = 0
    /\ clicks = 0

NextAttendance ==
    \/ OpenFrequencyTab
    \/ LeaveFrequencyTab
    \/ TabSelectWorkshop
    \/ TabSelectDate
    \/ TabStatusChange
    \/ TabSave
    \/ TabSaveNoKey
    \/ OpenFrequencyModal
    \/ ModalStatusChange
    \/ ModalSave
    \/ ModalClose

SpecAttendance == InitAttendance /\ [][NextAttendance]_vars

\* -------------------------------------------------------------- persistence

SessionIds == {"s1", "s2"}

\* The maps handed to upsertFrequency.
UpsertMaps ==
    { [b \in {"b1"} |-> "present"],
      [b \in {"b2"} |-> "justified"],
      [b \in {"b1", "b2"} |-> IF b = "b1" THEN "absent" ELSE "present"] }

\* upsert that keeps the keys of the stored row (a merge in the store).
UpsertRowMerging(tbl, workshopId, date, att) ==
    [k \in (DOMAIN tbl) \cup {<<workshopId, date>>} |->
        IF k = <<workshopId, date>>
        THEN (IF k \in DOMAIN tbl THEN Spread(tbl[k], att) ELSE att)
        ELSE tbl[k]]

\* .upsert({ workshopId, date, attendance }, { ignoreDuplicates: false }) on a
\* table whose primary key is ("workshopId", "date"): the row of the key is
\* inserted or replaced
UpsertRow(tbl, workshopId, date, att) ==
    [k \in (DOMAIN tbl) \cup {<<workshopId, date>>} |->
        IF k = <<workshopId, date>> THEN att ELSE tbl[k]]

\* upsertFrequency: the table it leaves.  error is the store's answer.
upsertFrequencyTable(tbl, enabled, workshopId, date, att, error) ==
    IF ~enabled THEN tbl
    ELSE IF error THEN tbl
    ELSE UpsertRow(tbl, workshopId, date, att)

\* upsertFrequency: what its caller observes.  The error branch only logs a
\* warning, so the promise resolves on every path.
upsertFrequencyOutcome(enabled, error) ==
    IF ~enabled THEN "resolved"
    ELSE IF error THEN "resolved"
    ELSE "resolved"

\* A page load: useLocalStorage reads the stored item into the App state.
SessionMount ==
    /\ \E s \in SessionIds :
        sess' = [sess EXCEPT ![s] = [mounted |-> TRUE, frequencies |-> storage]]
    /\ UNCHANGED <<storage, table, supabaseEnabled, writeLog, upsertLog>>
    /\ UNCHANGED <<cvars, avars, dvars, evars>>

\* One attendance save of a session: the view merges the edit into the record
\* the session holds, handleSaveFrequency updates the App state and the
\* useLocalStorage effect writes the whole collection to the stored item.
SessionSave ==
    /\ Len(writeLog) + Len(upsertLog) < MaxWrites
    /\ \E s \in SessionIds, date \in Dates, b \in BeneficiaryIds, status \in AttendanceStatus :
        LET freqs    == sess[s].frequencies
            existing == currentAttendance(freqs, WorkshopIds[1], date)
            edits    == [x \in {b} |-> status]
            final    == Spread(existing, edits)
            updated  == handleSaveFrequency(freqs, WorkshopIds[1], date, final)
        IN /\ sess[s].mounted
           /\ sess' = [sess EXCEPT ![s].frequencies = updated]
           /\ storage' = updated
           /\ writeLog' = Append(writeLog,
                 [session    |-> s,
                  workshopId |-> WorkshopIds[1],
                  date       |-> date,
                  attendance |-> final,
                  edits      |-> edits,
                  baseline   |-> existing,
                  hadRecord  |-> findIndex(freqs, WorkshopIds[1], date) > 0,
                  stale      |-> freqs # storage])
    /\ UNCHANGED <<table, supabaseEnabled, upsertLog>>
    /\ UNCHANGED <<cvars, avars, dvars, evars>>

\* A call of upsertFrequency(workshopId, date, attendance)
UpsertFrequency ==
    /\ Len(writeLog) + Len(upsertLog) < MaxWrites
    /\ \E date \in Dates, att \in UpsertMaps, error \in BOOLEAN :
        /\ table' = upsertFrequencyTable(table, supabaseEnabled, WorkshopIds[1], date, att, error)
        /\ upsertLog' = Append(upsertLog,
              [workshopId |-> WorkshopIds[1],
               date       |-> date,
               attendance |-> att,
               sent       |-> supabaseEnabled,
               error      |-> supabaseEnabled /\ error,
               outcome    |-> upsertFrequencyOutcome(supabaseEnabled, error)])
    /\ UNCHANGED <<storage, supabaseEnabled, sess, writeLog>>
    /\ UNCHANGED <<cvars, avars, dvars, evars>>

InitPersistence ==
    /\ ConflictIdle
    /\ AttendanceIdle
    /\ DataIdle
    /\ ElseIdle
    /\ storage \in InitialFrequencies
    /\ table = <<>>
    /\ supabaseEnabled \in BOOLEAN
    /\ sess = [s \in SessionIds |-> [mounted |-> FALSE, frequencies |-> <<>>]]
    /\ writeLog = <<>>
    /\ upsertLog = <<>>

NextPersistence ==
    \/ SessionMount
    \/ SessionSave
    \/ UpsertFrequency

SpecPersistence == InitPersistence /\ [][NextPersistence]_vars

\* ================================================================== data
\* The App's collections and the handlers that write them (part_001).

\* The keys handleBackup writes; the ones handleRestoreBackup requires; the
\* collections the settings tab can clear.
CollectionNames == {"beneficiaries", "educators", "workshops", "frequencies", "scheduledMessages"}
CoreCollections == {"beneficiaries", "educators", "workshops", "frequencies"}
ClearTargetsWithFrequencies == {"beneficiaries", "educators", "workshops", "frequencies"}
ClearTargets == {"beneficiaries", "educators", "workshops"}

Cpfs == {"111.444.777-35", "529.982.247-25"}
EducatorNames == {"Ana", "Bia"}

\* Ids made from Date.now(): one fresh id of each kind.
NewBeneficiaryId == "b3"
NewEducatorId == "e2"
NewWorkshopId == "w3"

\* Array.prototype.map and the ids of a collection.
IdsOf(coll) == {coll[k].id : k \in 1..Len(coll)}
IdSeq(coll) == [k \in 1..Len(coll) |-> coll[k].id]
ById(coll, id) == CHOOSE x \in {coll[k] : k \in 1..Len(coll)} : x.id = id

\* The toggle of a workshop checkbox, in the beneficiary form, the transfer
\* modal and (over beneficiary ids) the enroll modal.
handleWorkshopChangeAppend(ids, workshopId) == Append(ids, workshopId)
handleWorkshopChange(ids, workshopId) ==
    IF Includes(ids, workshopId)
    THEN SelectSeq(ids, LAMBDA id : id # workshopId)
    ELSE Append(ids, workshopId)

\* The duplicate looked up by handleSaveBeneficiary.
duplicate(bens, beneficiary) ==
    \E k \in 1..Len(bens) : bens[k].cpf = beneficiary.cpf /\ bens[k].id # beneficiary.id

handleSaveBeneficiaryUnchecked(bens, editing, beneficiary) ==
    IF editing
    THEN [ok |-> TRUE, toast |-> "success",
          beneficiaries |-> [k \in 1..Len(bens) |->
                                IF bens[k].id = beneficiary.id THEN beneficiary ELSE bens[k]]]
    ELSE [ok |-> TRUE, toast |-> "success", beneficiaries |-> Append(bens, beneficiary)]

\* handleSaveBeneficiary: the value returned, the toast and the new collection.
handleSaveBeneficiary(bens, editing, beneficiary) ==
    IF duplicate(bens, beneficiary)
    THEN [ok |-> FALSE, toast |-> "error", beneficiaries |-> bens]
    ELSE IF editing
    THEN [ok |-> TRUE, toast |-> "success",
          beneficiaries |-> [k \in 1..Len(bens) |->
                                IF bens[k].id = beneficiary.id THEN beneficiary ELSE bens[k]]]
    ELSE [ok |-> TRUE, toast |-> "success", beneficiaries |-> Append(bens, beneficiary)]

handleDeleteBeneficiary(bens, id) == SelectSeq(bens, LAMBDA b : b.id # id)

\* The ids handleImportCsv makes from Date.now() and Math.random(): never one
\* that is in the collection.
ImportIds == <<"i1", "i2", "i3", "i4", "i5", "i6", "i7", "i8", "i9", "i10">>
UnusedImportIds(bens) == SelectSeq(ImportIds, LAMBDA id : id \notin IdsOf(bens))

\* The data rows of a CSV file, by their cpf column ("" when it is missing),
\* and the files: the header line with up to two rows.
CsvRows == [cpf : Cpfs \cup {""}]
CsvFiles == {<<>>} \cup {<<r>> : r \in CsvRows} \cup {<<r, q>> : r \in CsvRows, q \in CsvRows}

\* handleImportCsv(csvText, 'beneficiaries'): a file with no data row is
\* refused; a row without name or cpf is counted as an error and skipped;
\* every other row becomes a beneficiary with no workshops, appended.
handleImportCsv(bens, rows) ==
    IF rows = <<>> THEN [toast |-> "error", beneficiaries |-> bens]
    ELSE LET valid == SelectSeq(rows, LAMBDA r : r.cpf # "")
             newBeneficiaries ==
                 [k \in 1..Len(valid) |->
                    [id |-> UnusedImportIds(bens)[k], cpf |-> valid[k].cpf, workshopIds |-> <<>>]]
         IN [toast |-> "info", beneficiaries |-> bens \o newBeneficiaries]

\* The order of the beneficiaries' names under localeCompare, by id.
NameOrder == <<"b2", "i1", "i3", "b3", "i5", "b1", "i2", "i4", "i6", "i7", "i8", "i9", "i10">>
NameRank(id) == CHOOSE k \in 1..Len(NameOrder) : NameOrder[k] = id

\* handleRegenerateRegistrations once confirmed: the collection sorted by
\* name, each record given a new registration (a field these records leave out).
handleRegenerateRegistrations(bens) ==
    LET sortedByName ==
            [k \in 1..Len(bens) |->
                CHOOSE x \in {bens[n] : n \in 1..Len(bens)} :
                    Cardinality({m \in 1..Len(bens) : NameRank(bens[m].id) < NameRank(x.id)}) = k - 1]
    IN sortedByName

handleSaveEducator(eds, editing, educator) ==
    IF editing
    THEN [k \in 1..Len(eds) |-> IF eds[k].id = educator.id THEN educator ELSE eds[k]]
    ELSE Append(eds, educator)

\* handleDeleteEducator: the two collections it writes.
handleDeleteEducatorEducators(eds, id) == SelectSeq(eds, LAMBDA e : e.id # id)
handleDeleteEducatorWorkshops(ws, id) ==
    [k \in 1..Len(ws) |-> IF ws[k].educatorId = id THEN [ws[k] EXCEPT !.educatorId = ""] ELSE ws[k]]

handleSaveWorkshop(ws, editing, workshop) ==
    IF editing
    THEN [k \in 1..Len(ws) |-> IF ws[k].id = workshop.id THEN workshop ELSE ws[k]]
    ELSE Append(ws, workshop)

\* handleDeleteWorkshop: the two collections it writes.
handleDeleteWorkshopWorkshops(ws, id) == SelectSeq(ws, LAMBDA w : w.id # id)
handleDeleteWorkshopBeneficiaries(bens, id) ==
    [k \in 1..Len(bens) |->
        [bens[k] EXCEPT !.workshopIds = SelectSeq(@, LAMBDA wid : wid # id)]]

handleTransferBeneficiary(bens, beneficiaryId, newWorkshopIds) ==
    [k \in 1..Len(bens) |->
        IF bens[k].id = beneficiaryId
        THEN [bens[k] EXCEPT !.workshopIds = newWorkshopIds]
        ELSE bens[k]]

handleEnrollBeneficiaries(bens, workshopId, beneficiaryIdsToAdd) ==
    [k \in 1..Len(bens) |->
        IF Includes(beneficiaryIdsToAdd, bens[k].id)
        THEN [bens[k] EXCEPT !.workshopIds = Append(@, workshopId)]
        ELSE bens[k]]

\* EnrollBeneficiaryModal.availableBeneficiaries with an empty search term.
availableBeneficiariesAll(bens, workshopId) == IdSeq(bens)
availableBeneficiaries(bens, workshopId) ==
    IdSeq(SelectSeq(bens, LAMBDA b : ~Includes(b.workshopIds, workshopId)))

\* The five collections of the App, as one record.
Current ==
    [beneficiaries |-> beneficiaries, educators |-> educators, workshops |-> workshops,
     frequencies |-> frequencies, scheduledMessages |-> scheduledMessages]

\* handleBackup: the text downloaded. JSON.stringify followed by JSON.parse
\* gives back these collections as they are (strings, arrays and plain
\* objects only), and an array, even an empty one, is truthy.
handleBackupWithoutMessages(cur) ==
    [valid |-> TRUE, has |-> CoreCollections,
     beneficiaries |-> cur.beneficiaries, educators |-> cur.educators,
     workshops |-> cur.workshops, frequencies |-> cur.frequencies,
     scheduledMessages |-> <<>>]
handleBackup(cur) ==
    [valid |-> TRUE, has |-> CollectionNames,
     beneficiaries |-> cur.beneficiaries, educators |-> cur.educators,
     workshops |-> cur.workshops, frequencies |-> cur.frequencies,
     scheduledMessages |-> cur.scheduledMessages]

handleRestoreBackupUnvalidated(doc, cur) ==
    IF doc.valid
    THEN [ok |-> TRUE, toast |-> "success",
          beneficiaries |-> doc.beneficiaries, educators |-> doc.educators,
          workshops |-> doc.workshops, frequencies |-> doc.frequencies,
          scheduledMessages |-> doc.scheduledMessages]
    ELSE [ok |-> FALSE, toast |-> "error",
          beneficiaries |-> cur.beneficiaries, educators |-> cur.educators,
          workshops |-> cur.workshops, frequencies |-> cur.frequencies,
          scheduledMessages |-> cur.scheduledMessages]

\* handleRestoreBackup: the toast and the five collections afterwards.
handleRestoreBackup(doc, cur) ==
    IF doc.valid /\ CoreCollections \subseteq doc.has
    THEN [ok |-> TRUE, toast |-> "success",
          beneficiaries |-> doc.beneficiaries, educators |-> doc.educators,
          workshops |-> doc.workshops, frequencies |-> doc.frequencies,
          scheduledMessages |-> IF "scheduledMessages" \in doc.has
                                THEN doc.scheduledMessages ELSE <<>>]
    ELSE [ok |-> FALSE, toast |-> "error",
          beneficiaries |-> cur.beneficiaries, educators |-> cur.educators,
          workshops |-> cur.workshops, frequencies |-> cur.frequencies,
          scheduledMessages |-> cur.scheduledMessages]

\* A backup written elsewhere, cut down to the keys in has.
ForeignDocument(has) ==
    [valid |-> TRUE, has |-> has,
     beneficiaries |-> IF "beneficiaries" \in has
                       THEN << [id |-> "b9", cpf |-> "390.533.447-05", workshopIds |-> <<"w1">>] >>
                       ELSE <<>>,
     educators |-> IF "educators" \in has THEN << [id |-> "e1", name |-> "Ana"] >> ELSE <<>>,
     workshops |-> IF "workshops" \in has THEN << [id |-> "w1", educatorId |-> "e1"] >> ELSE <<>>,
     frequencies |-> IF "frequencies" \in has
                     THEN << [workshopId |-> "w2", date |-> "2025-11-05",
                              attendance |-> [b \in {"b2"} |-> "present"]] >>
                     ELSE <<>>,
     scheduledMessages |-> IF "scheduledMessages" \in has THEN <<"m9">> ELSE <<>>]

\* The texts given to handleRestoreBackup: one that does not parse, a full
\* backup, and the backups lacking one key.
InvalidJson == NoDocument
RestoreDocuments ==
    {InvalidJson, ForeignDocument(CollectionNames)}
        \cup {ForeignDocument(CollectionNames \ {c}) : c \in CollectionNames}

\* Bookkeeping of a step: the handler run, what it returned, its toast.
Ran(op, ok, t) ==
    /\ lastOp' = [op |-> op, ok |-> ok]
    /\ toast' = t
    /\ ops' = ops + 1

Idle == modal = NoModal /\ ops < MaxOps
InModal(kind) == modal.kind = kind /\ ops < MaxOps

\* openBeneficiaryModal, and the effect of BeneficiaryModal that loads the form.
OpenBeneficiaryModal ==
    /\ Idle
    /\ \/ /\ NewBeneficiaryId \notin IdsOf(beneficiaries)
          /\ modal' = [kind |-> "beneficiary", target |-> "", cpf |-> "", ids |-> <<>>]
       \/ \E id \in IdsOf(beneficiaries) :
             modal' = [kind |-> "beneficiary", target |-> id,
                       cpf |-> ById(beneficiaries, id).cpf,
                       ids |-> ById(beneficiaries, id).workshopIds]
    /\ Ran("openBeneficiaryModal", TRUE, toast)
    /\ UNCHANGED <<beneficiaries, educators, workshops, scheduledMessages, downloads, document>>
    /\ UNCHANGED <<cvars, avars, pvars, evars>>

\* BeneficiaryModal.handleChange on the cpf field; Cpfs are formatted values.
BeneficiaryChangeCpf ==
    /\ InModal("beneficiary")
    /\ \E c \in Cpfs : modal' = [modal EXCEPT !.cpf = c]
    /\ Ran("handleChange", TRUE, toast)
    /\ UNCHANGED <<beneficiaries, educators, workshops, scheduledMessages, downloads, document>>
    /\ UNCHANGED <<cvars, avars, pvars, evars>>

\* BeneficiaryModal.handleWorkshopChange
BeneficiaryWorkshopChange ==
    /\ InModal("beneficiary")
    /\ \E w \in IdsOf(workshops) : modal' = [modal EXCEPT !.ids = handleWorkshopChange(@, w)]
    /\ Ran("handleWorkshopChange", TRUE, toast)
    /\ UNCHANGED <<beneficiaries, educators, workshops, scheduledMessages, downloads, document>>
    /\ UNCHANGED <<cvars, avars, pvars, evars>>

\* BeneficiaryModal.handleSubmit, with the handleSaveBeneficiary it calls.
BeneficiarySubmit ==
    /\ InModal("beneficiary")
    /\ LET finalBeneficiary ==
               [id |-> IF modal.target = "" THEN NewBeneficiaryId ELSE modal.target,
                cpf |-> modal.cpf, workshopIds |-> modal.ids]
           success == handleSaveBeneficiary(beneficiaries, modal.target # "", finalBeneficiary)
       IN /\ beneficiaries' = success.beneficiaries
          /\ modal' = IF success.ok THEN NoModal ELSE modal
          /\ Ran("handleSaveBeneficiary", success.ok, success.toast)
    /\ UNCHANGED <<educators, workshops, scheduledMessages, downloads, document>>
    /\ UNCHANGED <<cvars, avars, pvars, evars>>

\* onClose of the open modal.
CloseModal ==
    /\ modal # NoModal
    /\ ops < MaxOps
    /\ modal' = NoModal
    /\ Ran("onClose", TRUE, toast)
    /\ UNCHANGED <<beneficiaries, educators, workshops, scheduledMessages, downloads, document>>
    /\ UNCHANGED <<cvars, avars, pvars, evars>>

DeleteBeneficiary ==
    /\ Idle
    /\ \E id \in IdsOf(beneficiaries) : beneficiaries' = handleDeleteBeneficiary(beneficiaries, id)
    /\ Ran("handleDeleteBeneficiary", TRUE, "info")
    /\ UNCHANGED <<educators, workshops, scheduledMessages, modal, downloads, document>>
    /\ UNCHANGED <<cvars, avars, pvars, evars>>

\* EducatorModal's submit: a new educator, or an existing one renamed.
SaveEducator ==
    /\ Idle
    /\ \/ /\ NewEducatorId \notin IdsOf(educators)
          /\ educators' = handleSaveEducator(educators, FALSE, [id |-> NewEducatorId, name |-> "Bia"])
       \/ \E id \in IdsOf(educators), n \in EducatorNames :
             educators' = handleSaveEducator(educators, TRUE, [id |-> id, name |-> n])
    /\ Ran("handleSaveEducator", TRUE, "success")
    /\ UNCHANGED <<beneficiaries, workshops, scheduledMessages, modal, downloads, document>>
    /\ UNCHANGED <<cvars, avars, pvars, evars>>

DeleteEducator ==
    /\ Idle
    /\ \E id \in IdsOf(educators) :
          /\ educators' = handleDeleteEducatorEducators(educators, id)
          /\ workshops' = handleDeleteEducatorWorkshops(workshops, id)
    /\ Ran("handleDeleteEducator", TRUE, "info")
    /\ UNCHANGED <<beneficiaries, scheduledMessages, modal, downloads, document>>
    /\ UNCHANGED <<cvars, avars, pvars, evars>>

\* WorkshopModal's submit: a new workshop, or an existing one given another educator.
SaveWorkshop ==
    /\ Idle
    /\ \E e \in IdsOf(educators) \cup {""} :
          \/ /\ NewWorkshopId \notin IdsOf(workshops)
             /\ workshops' = handleSaveWorkshop(workshops, FALSE, [id |-> NewWorkshopId, educatorId |-> e])
          \/ \E id \in IdsOf(workshops) :
                workshops' = handleSaveWorkshop(workshops, TRUE, [id |-> id, educatorId |-> e])
    /\ Ran("handleSaveWorkshop", TRUE, "success")
    /\ UNCHANGED <<beneficiaries, educators, scheduledMessages, modal, downloads, document>>
    /\ UNCHANGED <<cvars, avars, pvars, evars>>

DeleteWorkshop ==
    /\ Idle
    /\ \E id \in IdsOf(workshops) :
          /\ workshops' = handleDeleteWorkshopWorkshops(workshops, id)
          /\ beneficiaries' = handleDeleteWorkshopBeneficiaries(beneficiaries, id)
    /\ Ran("handleDeleteWorkshop", TRUE, "info")
    /\ UNCHANGED <<educators, scheduledMessages, modal, downloads, document>>
    /\ UNCHANGED <<cvars, avars, pvars, evars>>

\* openTransferModal, and the effect of TransferBeneficiaryModal that loads the selection.
OpenTransferModal ==
    /\ Idle
    /\ \E id \in IdsOf(beneficiaries) :
          modal' = [kind |-> "transfer", target |-> id, cpf |-> "",
                    ids |-> ById(beneficiaries, id).workshopIds]
    /\ Ran("openTransferModal", TRUE, toast)
    /\ UNCHANGED <<beneficiaries, educators, workshops, scheduledMessages, downloads, document>>
    /\ UNCHANGED <<cvars, avars, pvars, evars>>

\* TransferBeneficiaryModal.handleWorkshopChange
TransferWorkshopChange ==
    /\ InModal("transfer")
    /\ \E w \in IdsOf(workshops) : modal' = [modal EXCEPT !.ids = handleWorkshopChange(@, w)]
    /\ Ran("handleWorkshopChange", TRUE, toast)
    /\ UNCHANGED <<beneficiaries, educators, workshops, scheduledMessages, downloads, document>>
    /\ UNCHANGED <<cvars, avars, pvars, evars>>

\* TransferBeneficiaryModal.handleSubmit, with the handleTransferBeneficiary it calls.
TransferSubmit ==
    /\ InModal("transfer")
    /\ beneficiaries' = handleTransferBeneficiary(beneficiaries, modal.target, modal.ids)
    /\ modal' = NoModal
    /\ Ran("handleTransferBeneficiary", TRUE, "success")
    /\ UNCHANGED <<educators, workshops, scheduledMessages, downloads, document>>
    /\ UNCHANGED <<cvars, avars, pvars, evars>>

\* openEnrollModal, and the effect of EnrollBeneficiaryModal that empties the selection.
OpenEnrollModal ==
    /\ Idle
    /\ \E id \in IdsOf(workshops) :
          modal' = [kind |-> "enroll", target |-> id, cpf |-> "", ids |-> <<>>]
    /\ Ran("openEnrollModal", TRUE, toast)
    /\ UNCHANGED <<beneficiaries, educators, workshops, scheduledMessages, downloads, document>>
    /\ UNCHANGED <<cvars, avars, pvars, evars>>

\* EnrollBeneficiaryModal.handleSelectBeneficiary on a listed row, and handleSelectAll.
EnrollSelect ==
    /\ InModal("enroll")
    /\ LET available == availableBeneficiaries(beneficiaries, modal.target) IN
       \/ \E k \in 1..Len(available) :
             modal' = [modal EXCEPT !.ids = handleWorkshopChange(@, available[k])]
       \/ modal' = [modal EXCEPT !.ids = IF Len(@) = Len(available) THEN <<>> ELSE available]
    /\ Ran("handleSelectBeneficiary", TRUE, toast)
    /\ UNCHANGED <<beneficiaries, educators, workshops, scheduledMessages, downloads, document>>
    /\ UNCHANGED <<cvars, avars, pvars, evars>>

\* EnrollBeneficiaryModal.handleSubmit, with the handleEnrollBeneficiaries it calls.
EnrollSubmit ==
    /\ InModal("enroll")
    /\ IF Len(modal.ids) > 0
       THEN /\ beneficiaries' = handleEnrollBeneficiaries(beneficiaries, modal.target, modal.ids)
            /\ Ran("handleEnrollBeneficiaries", TRUE, "success")
       ELSE /\ beneficiaries' = beneficiaries
            /\ Ran("onClose", TRUE, toast)
    /\ modal' = NoModal
    /\ UNCHANGED <<educators, workshops, scheduledMessages, downloads, document>>
    /\ UNCHANGED <<cvars, avars, pvars, evars>>

\* The attendance views' own state, untouched by the handlers below.
fvars == <<activeTab, workshopForFrequency, attendanceChanges,
           selectedWorkshopId, selectedDate, attendance, tabEdits, lastSave, saves, clicks>>

\* handleSaveFrequency, called by an attendance view for a listed workshop.
SaveFrequency ==
    /\ Idle
    /\ \E w \in IdsOf(workshops), d \in Dates, att \in UpsertMaps :
          frequencies' = handleSaveFrequency(frequencies, w, d, att)
    /\ Ran("handleSaveFrequency", TRUE, "success")
    /\ UNCHANGED <<beneficiaries, educators, workshops, scheduledMessages, modal, downloads, document>>
    /\ UNCHANGED <<cvars, pvars, fvars, evars>>

\* handleClearData once confirmed: setter([]) for the collection of the button pressed.
ClearData ==
    /\ Idle
    /\ \E target \in ClearTargets :
          /\ beneficiaries' = IF target = "beneficiaries" THEN <<>> ELSE beneficiaries
          /\ educators' = IF target = "educators" THEN <<>> ELSE educators
          /\ workshops' = IF target = "workshops" THEN <<>> ELSE workshops
          /\ frequencies' = IF target = "frequencies" THEN <<>> ELSE frequencies
    /\ Ran("handleClearData", TRUE, "warning")
    /\ UNCHANGED <<scheduledMessages, modal, downloads, document>>
    /\ UNCHANGED <<cvars, pvars, fvars, evars>>

\* handleBackup: the file downloaded, kept with the state it was taken from.
Backup ==
    /\ Idle
    /\ downloads' = << [file |-> handleBackup(Current), state |-> Current] >>
    /\ Ran("handleBackup", TRUE, "success")
    /\ UNCHANGED <<beneficiaries, educators, workshops, scheduledMessages, modal, document>>
    /\ UNCHANGED <<cvars, avars, pvars, evars>>

\* handleRestoreBackup on a chosen file: a foreign one or the one downloaded.
RestoreBackup ==
    /\ Idle
    /\ \E doc \in RestoreDocuments \cup {downloads[k].file : k \in 1..Len(downloads)} :
          LET restored == handleRestoreBackup(doc, Current) IN
          /\ document' = doc
          /\ beneficiaries' = restored.beneficiaries
          /\ educators' = restored.educators
          /\ workshops' = restored.workshops
          /\ frequencies' = restored.frequencies
          /\ scheduledMessages' = restored.scheduledMessages
          /\ Ran("handleRestoreBackup", restored.ok, restored.toast)
    /\ UNCHANGED <<modal, downloads>>
    /\ UNCHANGED <<cvars, pvars, fvars, evars>>

\* The initial data: two beneficiaries with distinct CPFs and enrolments
\* without repetition, one educator, two workshops, one message scheduled.
InitialBeneficiaries ==
    << [id |-> "b1", cpf |-> "111.444.777-35", workshopIds |-> <<"w1">>],
       [id |-> "b2", cpf |-> "529.982.247-25", workshopIds |-> <<"w1", "w2">>] >>
InitialEducators == << [id |-> "e1", name |-> "Ana"] >>
InitialWorkshops == << [id |-> "w1", educatorId |-> "e1"], [id |-> "w2", educatorId |-> "e1"] >>

InitData ==
    /\ ConflictIdle
    /\ PersistenceIdle
    /\ ElseIdle
    /\ frequencies \in InitialFrequencies
    /\ activeTab = "oficinas"
    /\ workshopForFrequency = "null"
    /\ attendanceChanges = <<>>
    /\ selectedWorkshopId = ""
    /\ selectedDate = ""
    /\ attendance = <<>>
    /\ tabEdits = <<>>
    /\ lastSave = <<>>
    /\ saves = 0
    /\ clicks = 0
    /\ beneficiaries = InitialBeneficiaries
    /\ educators = InitialEducators
    /\ workshops = InitialWorkshops
    /\ scheduledMessages = <<"m1">>
    /\ modal = NoModal
    /\ toast = "none"
    /\ downloads = <<>>
    /\ document = NoDocument
    /\ lastOp = [op |-> "none", ok |-> TRUE]
    /\ ops = 0

NextData ==
    \/ OpenBeneficiaryModal
    \/ BeneficiaryChangeCpf
    \/ BeneficiaryWorkshopChange
    \/ BeneficiarySubmit
    \/ CloseModal
    \/ DeleteBeneficiary
    \/ SaveEducator
    \/ DeleteEducator
    \/ SaveWorkshop
    \/ DeleteWorkshop
    \/ OpenTransferModal
    \/ TransferWorkshopChange
    \/ TransferSubmit
    \/ OpenEnrollModal
    \/ EnrollSelect
    \/ EnrollSubmit
    \/ SaveFrequency
    \/ ClearData
    \/ Backup
    \/ RestoreBackup

SpecData == InitData /\ [][NextData]_vars

\* ================================================================== claims
\* Shorthands of the statements below.

Done == pc = "done"
Idx == 0..(Len(selectedWorkshops) - 1)
At(k) == selectedWorkshops[k + 1]
DaySet(w) == { w.days[k] : k \in 1..Len(w.days) }
Parsed(w) == parseTime(w.time)
Parses(w) == ~Parsed(w).null
ScanSet == { scan[k] : k \in 1..Len(scan) }
ResultSet == { result[k] : k \in 1..Len(result) }
\* the time strings of the catalog that hold no "HH:MM - HH:MM" range
Unparseable == { T_manha, T_900_1000 }
\* the index pairs the specification asks for
Overlapping ==
    { p \in Idx \X Idx :
        /\ p[1] < p[2]
        /\ Parses(At(p[1])) /\ Parses(At(p[2]))
        /\ DaySet(At(p[1])) \cap DaySet(At(p[2])) # {}
        /\ Parsed(At(p[1])).start < Parsed(At(p[2])).end
        /\ Parsed(At(p[2])).start < Parsed(At(p[1])).end }

\* C1: findConflictingWorkshops returns exactly the pairs (list[i], list[j]),
\* i < j, whose times both parse, whose day lists share a name and whose
\* ranges satisfy start_i < end_j and start_j < end_i: none more, none less.
C1_ExactPairs ==
    Done =>
        /\ ScanSet = Overlapping
        /\ Len(result) = Cardinality(Overlapping)
        /\ \A k \in 1..Len(result) : result[k] = <<At(scan[k][1]), At(scan[k][2])>>

C1_Witness ==
    /\ Done
    /\ Len(selectedWorkshops) = 3
    /\ Cardinality(Overlapping) = 1
    /\ Len(result) = 1

\* C2: two workshops that share a day and whose parsed ranges only touch
\* (one ends at the minute the other starts) are not reported, in either order.
C2_TouchingIsNoConflict ==
    Done =>
        \A a, b \in Idx :
            ( /\ a < b
              /\ Parses(At(a)) /\ Parses(At(b))
              /\ DaySet(At(a)) \cap DaySet(At(b)) # {}
              /\ \/ Parsed(At(a)).end = Parsed(At(b)).start
                 \/ Parsed(At(b)).end = Parsed(At(a)).start )
            => /\ <<a, b>> \notin ScanSet
               /\ Len(selectedWorkshops) = 2 => result = <<>>

C2_Witness ==
    /\ Done
    /\ selectedWorkshops = <<Catalog[2], Catalog[1]>>
    /\ result = <<>>

\* C3: a workshop whose time string holds no "HH:MM - HH:MM" range appears in
\* no returned pair; the elements the loop body reads exist (nothing throws)
\* and the other workshops are still compared with each other.
C3_UnparseableNeverReported ==
    /\ (pc = "inner" /\ j < Len(selectedWorkshops)) =>
          (i + 1 \in DOMAIN selectedWorkshops /\ j + 1 \in DOMAIN selectedWorkshops)
    /\ Done =>
        /\ \A k \in 1..Len(result) :
              result[k][1].time \notin Unparseable /\ result[k][2].time \notin Unparseable
        /\ \A p \in Overlapping :
              (At(p[1]).time \notin Unparseable /\ At(p[2]).time \notin Unparseable)
              => <<At(p[1]), At(p[2])>> \in ResultSet

C3_Witness ==
    /\ Done
    /\ selectedWorkshops = <<Catalog[1], Catalog[4], Catalog[3]>>
    /\ result = << <<Catalog[1], Catalog[3]>> >>

\* C4: a workshop whose parsed range has end <= start is in no returned pair.
C4_InvertedRangeNeverReported ==
    Done =>
        \A k \in 1..Len(result) :
            /\ Parsed(result[k][1]).start < Parsed(result[k][1]).end
            /\ Parsed(result[k][2]).start < Parsed(result[k][2]).end

\* C5 (as stated): a returned pair always shares a day name of the six-value
\* vocabulary; a common name outside it never makes a conflict.
C5_OnlyVocabularyDaysMatch ==
    Done =>
        \A k \in 1..Len(result) :
            \E d \in DaySet(result[k][1]) \cap DaySet(result[k][2]) : Includes(weekDays, d)

\* C5 (amended): day overlap is verbatim, case-sensitive equality of day names
\* with no vocabulary: two workshops whose ranges overlap are reported exactly
\* when some name occurs in both lists, also when that name ("Domingo", "xyz")
\* is none of the six, and names differing in case ("segunda") do not match.
C5_VerbatimDaysMatch ==
    Done =>
        \A a, b \in Idx :
            ( /\ a < b
              /\ Parses(At(a)) /\ Parses(At(b))
              /\ Parsed(At(a)).start < Parsed(At(b)).end
              /\ Parsed(At(b)).start < Parsed(At(a)).end )
            => ( <<a, b>> \in ScanSet
                   <=> \E x \in 1..Len(At(a).days), y \in 1..Len(At(b).days) :
                          At(a).days[x] = At(b).days[y] )

C5_Witness ==
    /\ Done
    /\ selectedWorkshops = <<Catalog[7], Catalog[8]>>
    /\ result = << <<Catalog[7], Catalog[8]>> >>

\* C6: two workshops whose day lists share no name are never reported,
\* whatever their ranges.
C6_NoSharedDayNoConflict ==
    Done =>
        /\ \A k \in 1..Len(result) : DaySet(result[k][1]) \cap DaySet(result[k][2]) # {}
        /\ \A p \in ScanSet : DaySet(At(p[1])) \cap DaySet(At(p[2])) # {}

C6_Witness ==
    /\ Done
    /\ selectedWorkshops = <<Catalog[3], Catalog[7]>>
    /\ Catalog[3].time = Catalog[7].time
    /\ result = <<>>

\* C7: for a list of exactly two workshops that share a day and whose parsed
\* ranges strictly overlap, the result is the single pair (first, second).
C7_TwoOverlappingOnePair ==
    ( /\ Done
      /\ Len(selectedWorkshops) = 2
      /\ Parses(At(0)) /\ Parses(At(1))
      /\ DaySet(At(0)) \cap DaySet(At(1)) # {}
      /\ Parsed(At(0)).start < Parsed(At(1)).end
      /\ Parsed(At(1)).start < Parsed(At(0)).end )
    => result = << <<selectedWorkshops[1], selectedWorkshops[2]>> >>

C7_Witness ==
    /\ Done
    /\ selectedWorkshops = <<Catalog[3], Catalog[2]>>
    /\ result = << <<Catalog[3], Catalog[2]>> >>

\* C8: the result is empty for the empty list and for every one-element list.
C8_ShortListsEmpty ==
    (Done /\ Len(selectedWorkshops) < 2) => result = <<>>

C8_Witness ==
    /\ Done
    /\ Len(selectedWorkshops) = 1
    /\ Parses(At(0))
    /\ DaySet(At(0)) # {}
    /\ result = <<>>

\* C9: the pairs come in scan order (outer index ascending, then inner index
\* ascending), the element of the smaller index first, each index pair at
\* most once and never a position with itself.
C9_ScanOrder ==
    /\ Len(conflicts) = Len(scan)
    /\ \A k \in 1..Len(scan) :
          /\ scan[k][1] \in Idx /\ scan[k][2] \in Idx
          /\ scan[k][1] < scan[k][2]
          /\ conflicts[k] = <<At(scan[k][1]), At(scan[k][2])>>
    /\ \A k, m \in 1..Len(scan) :
          k < m => \/ scan[k][1] < scan[m][1]
                   \/ scan[k][1] = scan[m][1] /\ scan[k][2] < scan[m][2]
    /\ Done => result = conflicts

C9_Witness ==
    /\ Done
    /\ Len(result) = 3
    /\ scan = << <<0, 1>>, <<0, 2>>, <<1, 2>> >>
    /\ selectedWorkshops[1] # selectedWorkshops[2]

\* The records of a key in the stored collection.
RecordsOf(workshopId, date) ==
    { k \in 1..Len(frequencies) :
        frequencies[k].workshopId = workshopId /\ frequencies[k].date = date }

\* C10: when no record is stored for a (workshop, date) key, the record a save
\* writes for it is exactly the edited map: the edited beneficiaries with
\* their edited statuses and no other entry.
C10_FirstSaveWritesEdits ==
    \A n \in 1..Len(lastSave) :
        ~lastSave[n].existed =>
            /\ lastSave[n].attendance = lastSave[n].edits
            /\ Cardinality(RecordsOf(lastSave[n].workshopId, lastSave[n].date)) = 1
            /\ \A k \in RecordsOf(lastSave[n].workshopId, lastSave[n].date) :
                  /\ DOMAIN frequencies[k].attendance = DOMAIN lastSave[n].edits
                  /\ \A b \in DOMAIN lastSave[n].edits :
                        frequencies[k].attendance[b] = lastSave[n].edits[b]

C10_Witness ==
    \E n \in 1..Len(lastSave) :
        /\ ~lastSave[n].existed
        /\ lastSave[n].workshopId = "w2"
        /\ lastSave[n].edits = [b \in {"b2"} |-> "present"]
        /\ Len(frequencies) = 2
        /\ frequencies[2] = [workshopId |-> "w2", date |-> lastSave[n].date,
                             attendance |-> [b \in {"b2"} |-> "present"]]

\* C11: when a record is already stored for a (workshop, date) key, the record
\* a save writes is the stored map overlaid by the edits: every edited
\* beneficiary has the edited status, every beneficiary only in the stored map
\* keeps its status, and no other key appears (daily tab and monthly grid).
C11_SaveOverlaysExisting ==
    \A n \in 1..Len(lastSave) :
        lastSave[n].existed =>
            /\ Cardinality(RecordsOf(lastSave[n].workshopId, lastSave[n].date)) = 1
            /\ \A k \in RecordsOf(lastSave[n].workshopId, lastSave[n].date) :
                  /\ frequencies[k].attendance = lastSave[n].attendance
                  /\ DOMAIN frequencies[k].attendance =
                        (DOMAIN lastSave[n].existing) \cup (DOMAIN lastSave[n].edits)
                  /\ \A b \in DOMAIN lastSave[n].edits :
                        frequencies[k].attendance[b] = lastSave[n].edits[b]
                  /\ \A b \in (DOMAIN lastSave[n].existing) \ (DOMAIN lastSave[n].edits) :
                        frequencies[k].attendance[b] = lastSave[n].existing[b]

C11_Witness ==
    \E n \in 1..Len(lastSave) :
        /\ lastSave[n].existed
        /\ lastSave[n].existing = [b \in {"b1", "b2"} |-> IF b = "b1" THEN "present" ELSE "absent"]
        /\ lastSave[n].edits = [b \in {"b2"} |-> "justified"]
        /\ frequencies[1].attendance =
              [b \in {"b1", "b2"} |-> IF b = "b1" THEN "present" ELSE "justified"]

\* The successful upsertFrequency calls for a key, by position in upsertLog.
Stored(workshopId, date) ==
    { n \in 1..Len(upsertLog) :
        /\ upsertLog[n].workshopId = workshopId /\ upsertLog[n].date = date
        /\ upsertLog[n].sent /\ ~upsertLog[n].error }

\* The records of a key in the localStorage item.
StorageRecordsOf(workshopId, date) ==
    { k \in 1..Len(storage) :
        storage[k].workshopId = workshopId /\ storage[k].date = date }

\* C12: a write is an upsert keyed by (workshopId, date): afterwards the map
\* stored for the key is the written map in full (the store does not merge),
\* so of successive writes to a key only the latest one's map remains.
C12_UpsertReplacesWholeMap ==
    /\ \A k \in DOMAIN table :
          /\ Stored(k[1], k[2]) # {}
          /\ \A n \in Stored(k[1], k[2]) :
                (\A m \in Stored(k[1], k[2]) : m <= n) => table[k] = upsertLog[n].attendance
    /\ \A n \in 1..Len(upsertLog) :
          (upsertLog[n].sent /\ ~upsertLog[n].error)
              => <<upsertLog[n].workshopId, upsertLog[n].date>> \in DOMAIN table
    /\ writeLog # <<>> =>
          LET w == writeLog[Len(writeLog)] IN
          /\ Cardinality(StorageRecordsOf(w.workshopId, w.date)) = 1
          /\ \A k \in StorageRecordsOf(w.workshopId, w.date) :
                storage[k].attendance = w.attendance

C12_Witness ==
    /\ Len(upsertLog) = 2
    /\ upsertLog[1].date = upsertLog[2].date
    /\ upsertLog[1].sent /\ ~upsertLog[1].error
    /\ upsertLog[2].sent /\ ~upsertLog[2].error
    /\ upsertLog[1].attendance = [b \in {"b1", "b2"} |-> IF b = "b1" THEN "absent" ELSE "present"]
    /\ upsertLog[2].attendance = [b \in {"b1"} |-> "present"]
    /\ table[<<upsertLog[2].workshopId, upsertLog[2].date>>] = [b \in {"b1"} |-> "present"]

\* C13: when the backing store reports an error for an upsert, the caller of
\* upsertFrequency observes a failure instead of a normal completion.
C13_FailedWriteSurfaced ==
    \A n \in 1..Len(upsertLog) :
        upsertLog[n].error => upsertLog[n].outcome # "resolved"

\* Two saves of the same key by different sessions, the later one made from
\* the record both had loaded (it never saw the earlier save), the later one
\* being the latest write of the stored item.
LostUpdatePairs ==
    { p \in (1..Len(writeLog)) \X (1..Len(writeLog)) :
        /\ p[1] < p[2]
        /\ p[2] = Len(writeLog)
        /\ writeLog[p[1]].session # writeLog[p[2]].session
        /\ writeLog[p[1]].workshopId = writeLog[p[2]].workshopId
        /\ writeLog[p[1]].date = writeLog[p[2]].date
        /\ writeLog[p[1]].hadRecord /\ writeLog[p[2]].hadRecord
        /\ writeLog[p[1]].baseline = writeLog[p[2]].baseline }

\* C14: when two sessions loaded the same stored record of a key, each merged
\* its edit into that baseline and each wrote, the stored record of the key is
\* the map written last, and an edit made only by the session that wrote first
\* is not in it: the beneficiary has the baseline status again.
C14_LastWriterWins ==
    \A p \in LostUpdatePairs :
        LET first  == writeLog[p[1]]
            second == writeLog[p[2]]
        IN /\ Cardinality(StorageRecordsOf(second.workshopId, second.date)) = 1
           /\ \A k \in StorageRecordsOf(second.workshopId, second.date) :
                 /\ storage[k].attendance = second.attendance
                 /\ \A b \in (DOMAIN first.edits) \ (DOMAIN second.edits) :
                       IF b \in DOMAIN first.baseline
                       THEN /\ b \in DOMAIN storage[k].attendance
                            /\ storage[k].attendance[b] = first.baseline[b]
                       ELSE b \notin DOMAIN storage[k].attendance

C14_Witness ==
    /\ LostUpdatePairs = { <<1, 2>> }
    /\ writeLog[1].baseline = [b \in {"b1", "b2"} |-> IF b = "b1" THEN "present" ELSE "absent"]
    /\ writeLog[1].edits = [b \in {"b1"} |-> "justified"]
    /\ writeLog[2].edits = [b \in {"b2"} |-> "present"]
    /\ storage[1].attendance = [b \in {"b1", "b2"} |-> "present"]

\* C15: with Supabase configured, the attendance a session saves is in the
\* Supabase table afterwards, and the attendance a session shows is what the
\* table holds.
C15_SavesAndLoadsViaSupabase ==
    supabaseEnabled =>
        /\ \A n \in 1..Len(writeLog) :
              <<writeLog[n].workshopId, writeLog[n].date>> \in DOMAIN table
        /\ \A s \in SessionIds :
              sess[s].mounted =>
                 \A k \in 1..Len(sess[s].frequencies) :
                    LET f == sess[s].frequencies[k] IN
                    /\ <<f.workshopId, f.date>> \in DOMAIN table
                    /\ table[<<f.workshopId, f.date>>] = f.attendance

\* ---- claims on the data handlers

KeysOf(freqs) == {<<freqs[k].workshopId, freqs[k].date>> : k \in 1..Len(freqs)}
NoRepetition(ids) == \A m, n \in 1..Len(ids) : ids[m] = ids[n] => m = n
Rejected(doc) == ~doc.valid \/ ~(CoreCollections \subseteq doc.has)

\* C16: no step other than a backup restore removes the attendance record of
\* any (workshopId, date): every key that has a record keeps having one
\* across attendance saves, beneficiary, educator and workshop saves and
\* deletions, enrolments, transfers and clear-all.
C16_RecordsNeverDeleted ==
    [][ lastOp'.op # "handleRestoreBackup"
            => KeysOf(frequencies) \subseteq KeysOf(frequencies') ]_vars

\* C16 witness: a workshop has been deleted and its attendance record is still there.
C16_Witness ==
    /\ lastOp.op = "handleDeleteWorkshop"
    /\ \E k \in 1..Len(frequencies) : frequencies[k].workshopId \notin IdsOf(workshops)

\* C17: a restore from a text that does not parse, or that lacks one of the
\* four core collections, reports a failure and leaves the five collections
\* as they were.
C17_RejectedRestoreAppliesNothing ==
    [][ (lastOp'.op = "handleRestoreBackup" /\ Rejected(document'))
            => /\ ~lastOp'.ok
               /\ toast' = "error"
               /\ UNCHANGED <<beneficiaries, educators, workshops, frequencies,
                              scheduledMessages>> ]_vars

\* C17 witness: a backup holding everything but the frequencies was refused.
C17_Witness ==
    /\ lastOp.op = "handleRestoreBackup"
    /\ document.valid
    /\ document.has = CollectionNames \ {"frequencies"}
    /\ toast = "error"
    /\ beneficiaries # <<>>

\* C18: after a successful restore the four core collections are the
\* document's, the scheduled messages are the document's or the empty list
\* when absent, and restoring the file a backup produced gives back the
\* state the backup was taken from.
C18_RestoreReplacesWholesale ==
    [][ (lastOp'.op = "handleRestoreBackup" /\ lastOp'.ok)
            => /\ beneficiaries' = document'.beneficiaries
               /\ educators' = document'.educators
               /\ workshops' = document'.workshops
               /\ frequencies' = document'.frequencies
               /\ scheduledMessages' = IF "scheduledMessages" \in document'.has
                                       THEN document'.scheduledMessages ELSE <<>>
               /\ \A k \in 1..Len(downloads) :
                     document' = downloads[k].file => Current' = downloads[k].state ]_vars

\* C18 witness: the downloaded backup was restored, with a step taken
\* besides the backup and the restore.
C18_Witness ==
    /\ lastOp.op = "handleRestoreBackup"
    /\ lastOp.ok
    /\ downloads # <<>>
    /\ document = downloads[1].file
    /\ ops >= 3

\* C19: submitting the beneficiary form with the CPF of a different existing
\* beneficiary returns false, raises an error toast, leaves the collection
\* unchanged and leaves the modal open.
C19_DuplicateCpfRejected ==
    [][ ( /\ modal.kind = "beneficiary"
          /\ lastOp'.op = "handleSaveBeneficiary"
          /\ \E k \in 1..Len(beneficiaries) :
                /\ beneficiaries[k].cpf = modal.cpf
                /\ beneficiaries[k].id #
                      (IF modal.target = "" THEN NewBeneficiaryId ELSE modal.target) )
            => /\ ~lastOp'.ok
               /\ toast' = "error"
               /\ beneficiaries' = beneficiaries
               /\ modal' = modal ]_vars

\* C19 witness: a submit was refused and the form is still open with a CPF
\* another beneficiary has.
C19_Witness ==
    /\ lastOp.op = "handleSaveBeneficiary"
    /\ ~lastOp.ok
    /\ modal.kind = "beneficiary"
    /\ \E k \in 1..Len(beneficiaries) :
          /\ beneficiaries[k].cpf = modal.cpf
          /\ beneficiaries[k].id # (IF modal.target = "" THEN NewBeneficiaryId ELSE modal.target)

\* C20: as long as no backup has been restored, no beneficiary's workshopIds
\* holds the same workshop id twice.
C20_WorkshopIdsWithoutRepetition ==
    document = NoDocument =>
        \A k \in 1..Len(beneficiaries) : NoRepetition(beneficiaries[k].workshopIds)

\* C20 witness: an enrolment has added a second workshop to a beneficiary.
C20_Witness ==
    /\ lastOp.op = "handleEnrollBeneficiaries"
    /\ document = NoDocument
    /\ \E k \in 1..Len(beneficiaries) :
          beneficiaries[k].id = "b1" /\ beneficiaries[k].workshopIds = <<"w1", "w2">>

\* ================================================================== external calls
\* IntegrationTab.handleSync with syncWithMcp, ReportsTab.handleAnalyze with
\* analyzeDataWithGemini (part_001, services). An async handler is two
\* steps, the part before the await and the part after it; between them
\* the user may leave the tab, which discards the tab's state, and come back
\* to a fresh mount of it.

\* Most syncs started, most reports and analyses started, most mounts of a tab.
MaxSyncs == 2
MaxAnalyses == 3
MaxMounts == 3

\* What the awaited syncWithMcp promise can do: the mock resolves with
\* success = true; the MCP API it stands for may also answer success = false
\* or fail, the two cases handleSync provides for.
syncWithMcp == "success"
McpOutcomes == {syncWithMcp, "failure", "rejected"}

\* The part of handleSync after the await: the status and toast it sets, and
\* whether it calls onSyncSuccess.
handleSyncResultDateAlways(outcome) ==
    IF outcome = "success"
    THEN [status |-> "success", toast |-> "success", onSyncSuccess |-> TRUE]
    ELSE [status |-> "error", toast |-> "error", onSyncSuccess |-> TRUE]
handleSyncResultQuiet(outcome) ==
    IF outcome = "success"
    THEN [status |-> "success", toast |-> "success", onSyncSuccess |-> TRUE]
    ELSE [status |-> "idle", toast |-> "error", onSyncSuccess |-> FALSE]
handleSyncResult(outcome) ==
    IF outcome = "success"
    THEN [status |-> "success", toast |-> "success", onSyncSuccess |-> TRUE]
    ELSE [status |-> "error", toast |-> "error", onSyncSuccess |-> FALSE]

\* The rest of the external-call variables, for the frames below.
analyzeVars == <<reportsTab, reportData, analysis, isAnalyzing, isLoading, pendingReports,
                 aiConfigured, pendingAnalyses>>
syncVars == <<integrationTab, syncStatus, lastSyncDate, pendingSyncs>>

\* renderTab case 'integracao': a fresh IntegrationTab, syncStatus 'idle'.
OpenIntegrationTab ==
    /\ ~integrationTab.open
    /\ integrationTab.instance < MaxMounts
    /\ integrationTab' = [open |-> TRUE, instance |-> integrationTab.instance + 1]
    /\ syncStatus' = "idle"
    /\ UNCHANGED <<lastSyncDate, pendingSyncs, analyzeVars, now, toasts, settled>>
    /\ UNCHANGED <<cvars, avars, pvars, dvars, lvars>>

\* Another tab is rendered: the IntegrationTab and its state are discarded.
LeaveIntegrationTab ==
    /\ integrationTab.open
    /\ integrationTab' = [integrationTab EXCEPT !.open = FALSE]
    /\ syncStatus' = "idle"
    /\ UNCHANGED <<lastSyncDate, pendingSyncs, analyzeVars, now, toasts, settled>>
    /\ UNCHANGED <<cvars, avars, pvars, dvars, lvars>>

\* handleSync up to the await; the button is disabled while 'syncing'.
SyncStart ==
    /\ integrationTab.open
    /\ syncStatus # "syncing"
    /\ Len(toasts) + Cardinality(pendingSyncs) < MaxSyncs
    /\ syncStatus' = "syncing"
    /\ pendingSyncs' = pendingSyncs \cup {[id |-> now, instance |-> integrationTab.instance]}
    /\ now' = now + 1
    /\ UNCHANGED <<integrationTab, lastSyncDate, analyzeVars, toasts, settled>>
    /\ UNCHANGED <<cvars, avars, pvars, dvars, lvars>>

\* handleSync after the await. setSyncStatus reaches only the mount that
\* started the call; onSyncSuccess and addToast belong to the App.
SyncSettle ==
    /\ \E p \in pendingSyncs, outcome \in McpOutcomes :
          LET mounted == integrationTab.open /\ integrationTab.instance = p.instance
              r == handleSyncResult(outcome)
          IN /\ pendingSyncs' = pendingSyncs \ {p}
             /\ syncStatus' = IF mounted THEN r.status ELSE syncStatus
             /\ lastSyncDate' = IF r.onSyncSuccess THEN now ELSE lastSyncDate
             /\ toasts' = Append(toasts, r.toast)
             /\ settled' = [call |-> "sync", id |-> p.id, api |-> outcome, outcome |-> outcome,
                         mounted |-> mounted]
    /\ now' = now + 1
    /\ UNCHANGED <<integrationTab, analyzeVars>>
    /\ UNCHANGED <<cvars, avars, pvars, dvars, lvars>>

InitSync ==
    /\ ConflictIdle
    /\ AttendanceIdle
    /\ PersistenceIdle
    /\ DataIdle
    /\ ElseIdle

NextSync ==
    \/ OpenIntegrationTab
    \/ LeaveIntegrationTab
    \/ SyncStart
    \/ SyncSettle

\* The mock's timer fires, and a request to the API ends: a pending sync settles.
SpecSync == InitSync /\ [][NextSync]_vars /\ WF_vars(SyncSettle)

\* ---- claims on the MCP sync

SyncSettledNow == settled' # settled /\ settled'.call = "sync"

NoAnalysis == ""
GeminiText == "response.text"
DisabledText == "[Analise IA desativada]"
AnalyzeErrorText == "Ocorreu um erro ao tentar analisar os dados."

\* What ai.models.generateContent can do.
ApiResults == {"ok", "error"}

\* analyzeDataWithGemini: whether the promise it returns resolves or rejects, and with what.
analyzeDataWithGeminiSwallowing(configured, api) ==
    IF ~configured THEN [outcome |-> "resolved", text |-> DisabledText]
    ELSE IF api = "ok" THEN [outcome |-> "resolved", text |-> GeminiText]
    ELSE [outcome |-> "resolved", text |-> NoAnalysis]
analyzeDataWithGemini(configured, api) ==
    IF ~configured THEN [outcome |-> "resolved", text |-> DisabledText]
    ELSE IF api = "ok" THEN [outcome |-> "resolved", text |-> GeminiText]
    ELSE [outcome |-> "rejected", text |-> "Failed to get analysis from Gemini API."]

\* handleAnalyze after the await: try, catch and finally.
handleAnalyzeResultStuck(r) ==
    IF r.outcome = "resolved"
    THEN [analysis |-> r.text, isAnalyzing |-> FALSE]
    ELSE [analysis |-> AnalyzeErrorText, isAnalyzing |-> TRUE]
handleAnalyzeResult(r) ==
    IF r.outcome = "resolved"
    THEN [analysis |-> r.text, isAnalyzing |-> FALSE]
    ELSE [analysis |-> AnalyzeErrorText, isAnalyzing |-> FALSE]

\* renderTab case 'relatorios': a fresh ReportsTab.
OpenReportsTab ==
    /\ ~reportsTab.open
    /\ reportsTab.instance < MaxMounts
    /\ reportsTab' = [open |-> TRUE, instance |-> reportsTab.instance + 1]
    /\ reportData' = 0
    /\ analysis' = NoAnalysis
    /\ isAnalyzing' = FALSE
    /\ isLoading' = FALSE
    /\ UNCHANGED <<pendingReports, aiConfigured, pendingAnalyses, syncVars, now, toasts, settled>>
    /\ UNCHANGED <<cvars, avars, pvars, dvars, lvars>>

\* Another tab is rendered: the ReportsTab and its state are discarded.
LeaveReportsTab ==
    /\ reportsTab.open
    /\ reportsTab' = [reportsTab EXCEPT !.open = FALSE]
    /\ reportData' = 0
    /\ analysis' = NoAnalysis
    /\ isAnalyzing' = FALSE
    /\ isLoading' = FALSE
    /\ UNCHANGED <<pendingReports, aiConfigured, pendingAnalyses, syncVars, now, toasts, settled>>
    /\ UNCHANGED <<cvars, avars, pvars, dvars, lvars>>

\* generateReport up to the timer; the button is disabled while loading.
GenerateReport ==
    /\ reportsTab.open
    /\ ~isLoading
    /\ now <= MaxAnalyses
    /\ isLoading' = TRUE
    /\ pendingReports' = pendingReports \cup {[id |-> now, instance |-> reportsTab.instance]}
    /\ now' = now + 1
    /\ UNCHANGED <<reportsTab, reportData, analysis, isAnalyzing, aiConfigured, pendingAnalyses,
                   syncVars, toasts, settled>>
    /\ UNCHANGED <<cvars, avars, pvars, dvars, lvars>>

\* The timer of generateReport fires: the report is set and the analysis cleared.
ReportReady ==
    /\ \E p \in pendingReports :
          LET mounted == reportsTab.open /\ reportsTab.instance = p.instance IN
          /\ pendingReports' = pendingReports \ {p}
          /\ reportData' = IF mounted THEN p.id ELSE reportData
          /\ isLoading' = IF mounted THEN FALSE ELSE isLoading
          /\ analysis' = IF mounted THEN NoAnalysis ELSE analysis
    /\ UNCHANGED <<reportsTab, isAnalyzing, aiConfigured, pendingAnalyses, syncVars, now,
                   toasts, settled>>
    /\ UNCHANGED <<cvars, avars, pvars, dvars, lvars>>

\* handleAnalyze up to the await; the button is shown with a report and
\* disabled while analysing.
AnalyzeStart ==
    /\ reportsTab.open
    /\ reportData # 0
    /\ ~isAnalyzing
    /\ now <= MaxAnalyses
    /\ isAnalyzing' = TRUE
    /\ analysis' = NoAnalysis
    /\ pendingAnalyses' = pendingAnalyses \cup {[id |-> now, instance |-> reportsTab.instance]}
    /\ now' = now + 1
    /\ UNCHANGED <<reportsTab, reportData, isLoading, pendingReports, aiConfigured,
                   syncVars, toasts, settled>>
    /\ UNCHANGED <<cvars, avars, pvars, dvars, lvars>>

\* handleAnalyze after the await. The setters reach only the mount that
\* started the call.
AnalyzeSettle ==
    /\ \E p \in pendingAnalyses, api \in ApiResults :
          LET mounted == reportsTab.open /\ reportsTab.instance = p.instance
              r == analyzeDataWithGemini(aiConfigured, api)
              h == handleAnalyzeResult(r)
          IN /\ pendingAnalyses' = pendingAnalyses \ {p}
             /\ analysis' = IF mounted THEN h.analysis ELSE analysis
             /\ isAnalyzing' = IF mounted THEN h.isAnalyzing ELSE isAnalyzing
             /\ settled' = [call |-> "analyze", id |-> p.id, api |-> api,
                            outcome |-> r.outcome, mounted |-> mounted]
    /\ UNCHANGED <<reportsTab, reportData, isLoading, pendingReports, aiConfigured,
                   syncVars, now, toasts>>
    /\ UNCHANGED <<cvars, avars, pvars, dvars, lvars>>

InitAnalyze ==
    /\ ConflictIdle
    /\ AttendanceIdle
    /\ PersistenceIdle
    /\ DataIdle
    /\ integrationTab = [open |-> FALSE, instance |-> 0]
    /\ syncStatus = "idle"
    /\ lastSyncDate = 0
    /\ pendingSyncs = {}
    /\ reportsTab = [open |-> FALSE, instance |-> 0]
    /\ reportData = 0
    /\ analysis = NoAnalysis
    /\ isAnalyzing = FALSE
    /\ isLoading = FALSE
    /\ pendingReports = {}
    /\ aiConfigured \in BOOLEAN
    /\ pendingAnalyses = {}
    /\ now = 1
    /\ toasts = <<>>
    /\ settled = NotSettled
    /\ LaterIdle

NextAnalyze ==
    \/ OpenReportsTab
    \/ LeaveReportsTab
    \/ GenerateReport
    \/ ReportReady
    \/ AnalyzeStart
    \/ AnalyzeSettle

SpecAnalyze == InitAnalyze /\ [][NextAnalyze]_vars

\* ---- claims on the AI analysis

AnalysisFailedNow ==
    /\ settled' # settled
    /\ settled'.call = "analyze"
    /\ aiConfigured
    /\ settled'.api = "error"

\* C22 as stated: when the Gemini call fails, analyzeDataWithGemini rejects,
\* and handleAnalyze leaves the error text as the analysis, isAnalyzing
\* false, and the report and the collections as they were.
C22_FailedAnalysisShowsError ==
    [][ AnalysisFailedNow
            => /\ settled'.outcome = "rejected"
               /\ analysis' = AnalyzeErrorText
               /\ isAnalyzing' = FALSE
               /\ UNCHANGED <<reportData, beneficiaries, educators, workshops,
                              frequencies, scheduledMessages>> ]_vars

\* C22 amended: the error text is set, and isAnalyzing reset, in the mount of
\* the tab that started the analysis when it is still rendered; a tab left
\* in the meantime has lost its report and analysis, and a later mount is
\* not touched.
C22_FailedAnalysisReported ==
    [][ AnalysisFailedNow
            => /\ settled'.outcome = "rejected"
               /\ settled'.mounted => (analysis' = AnalyzeErrorText /\ isAnalyzing' = FALSE)
               /\ ~settled'.mounted => UNCHANGED <<analysis, isAnalyzing>>
               /\ UNCHANGED <<reportData, beneficiaries, educators, workshops,
                              frequencies, scheduledMessages>> ]_vars

\* C22 witness: the call failed in the tab that started it, which shows the
\* error text under its report.
C22_Witness ==
    /\ settled.call = "analyze"
    /\ settled.outcome = "rejected"
    /\ settled.mounted
    /\ reportData # 0
    /\ analysis = AnalyzeErrorText
    /\ ~isAnalyzing

\* ================================================================== monthly grid
\* WorkshopFrequencyModal on its own, with enough clicks and saves for a
\* cell to go round the cycle and for a key to be saved twice.

\* Most clicks on the grid's cells; most saves of the grid.
MaxGridClicks == 3
MaxGridSaves == 2

\* The stored collections the grid may start from (keys unique).
GridInitialFrequencies ==
    InitialFrequencies \cup
    { << [workshopId |-> "w1", date |-> "2025-11-03",
          attendance |-> [b \in {"b1", "b2"} |-> IF b = "b1" THEN "present" ELSE "absent"]],
         [workshopId |-> "w2", date |-> "2025-11-03",
          attendance |-> [b \in {"b2"} |-> "justified"]] >> }

\* The frame of the grid's actions.
notGrid == <<activeTab, selectedWorkshopId, selectedDate, attendance, tabEdits,
             cvars, pvars, dvars, xvars, uvars, mvars, kvars>>

\* onOpenFrequency(workshop): the grid opens and its effect clears the pending edits.
GridOpen ==
    /\ workshopForFrequency = "null"
    /\ \E k \in 1..Len(WorkshopIds) : workshopForFrequency' = WorkshopIds[k]
    /\ attendanceChanges' = <<>>
    /\ clickLog' = <<>>
    /\ UNCHANGED <<frequencies, lastSave, saves, clicks, notGrid>>

\* WorkshopFrequencyModal.handleStatusChange(beneficiaryId, date), with what
\* the cell shows before and after.
GridClick ==
    /\ workshopForFrequency # "null"
    /\ clicks < MaxGridClicks
    /\ \E b \in beneficiariesInWorkshop(workshopForFrequency), date \in Dates :
          LET changed == handleStatusChange(frequencies, workshopForFrequency,
                                            attendanceChanges, b, date)
          IN /\ attendanceChanges' = changed
             /\ clickLog' = Append(clickLog,
                   [beneficiaryId |-> b, date |-> date,
                    before |-> currentStatus(frequencies, workshopForFrequency,
                                             attendanceChanges, b, date),
                    after |-> currentStatus(frequencies, workshopForFrequency, changed, b, date)])
    /\ clicks' = clicks + 1
    /\ UNCHANGED <<frequencies, workshopForFrequency, lastSave, saves, notGrid>>

\* WorkshopFrequencyModal.handleSave: one onSave per edited date, then onClose.
GridSave ==
    /\ workshopForFrequency # "null"
    /\ saves < MaxGridSaves
    /\ frequencies' = SaveAll(frequencies,
                              initialFrequenciesMap(frequencies, workshopForFrequency),
                              workshopForFrequency, attendanceChanges)
    /\ lastSave' = ModalCalls(frequencies, workshopForFrequency, attendanceChanges)
    /\ workshopForFrequency' = "null"
    /\ attendanceChanges' = <<>>
    /\ clickLog' = <<>>
    /\ saves' = saves + 1
    /\ UNCHANGED <<clicks, notGrid>>

\* onClose without saving.
GridClose ==
    /\ workshopForFrequency # "null"
    /\ workshopForFrequency' = "null"
    /\ attendanceChanges' = <<>>
    /\ clickLog' = <<>>
    /\ UNCHANGED <<frequencies, lastSave, saves, clicks, notGrid>>

InitGrid ==
    /\ ConflictIdle
    /\ PersistenceIdle
    /\ DataIdle
    /\ ExternalIdle
    /\ AuthIdle
    /\ MessagesIdle
    /\ CountsIdle
    /\ frequencies \in GridInitialFrequencies
    /\ activeTab = "oficinas"
    /\ workshopForFrequency = "null"
    /\ attendanceChanges = <<>>
    /\ selectedWorkshopId = ""
    /\ selectedDate = ""
    /\ attendance = EmptyMap
    /\ tabEdits = EmptyMap
    /\ lastSave = <<>>
    /\ saves = 0
    /\ clicks = 0
    /\ clickLog = <<>>

NextGrid ==
    \/ GridOpen
    \/ GridClick
    \/ GridSave
    \/ GridClose

SpecGrid == InitGrid /\ [][NextGrid]_vars

\* ---- claims on the monthly grid

UniqueKeys(freqs) ==
    \A m, n \in 1..Len(freqs) :
        (freqs[m].workshopId = freqs[n].workshopId /\ freqs[m].date = freqs[n].date) => m = n

\* C23: the collection never holds two records of one (workshopId, date),
\* whatever the saves made, several calls of one grid save included.
C23_OneRecordPerKey == UniqueKeys(frequencies)

\* C23 witness: a second save of the grid made two calls, one for a key that
\* had a record and one for a key that had none.
C23_Witness ==
    /\ saves = 2
    /\ Len(lastSave) = 2
    /\ \E k \in 1..2 : lastSave[k].existed
    /\ \E k \in 1..2 : ~lastSave[k].existed
    /\ Len(frequencies) >= 2

\* The positions of the records of a key.
PositionsOf(freqs, workshopId, date) ==
    {k \in 1..Len(freqs) : freqs[k].workshopId = workshopId /\ freqs[k].date = date}

\* C27: a save of the grid leaves exactly one record for every edited date,
\* holding the stored attendance of that date overlaid with the date's edits,
\* adds a record only for an edited date that had none, and leaves the record
\* of every other key as it was.
C27_GridSaveWritesEveryEditedDate ==
    [][saves' = saves + 1 =>
        LET w == workshopForFrequency
            edited == {attendanceChanges[k].date : k \in 1..Len(attendanceChanges)}
        IN /\ \A k \in 1..Len(attendanceChanges) :
                LET e == attendanceChanges[k]
                    old == PositionsOf(frequencies, w, e.date)
                    new == PositionsOf(frequencies', w, e.date)
                    stored == IF old = {} THEN EmptyMap
                              ELSE frequencies[CHOOSE o \in old : TRUE].attendance
                IN /\ Cardinality(new) = 1
                   /\ \A n \in new : frequencies'[n].attendance = Spread(stored, e.record)
           /\ \A m \in 1..Len(frequencies) :
                ~(frequencies[m].workshopId = w /\ frequencies[m].date \in edited)
                    => (m <= Len(frequencies') /\ frequencies'[m] = frequencies[m])
           /\ Len(frequencies') =
                Len(frequencies) + Cardinality({d \in edited : PositionsOf(frequencies, w, d) = {}})
    ]_vars

\* C27 witness: a save made two calls, one of them merging edits into a stored
\* record that has an entry the edits do not touch, while a record of another
\* workshop sits in the collection.
C27_Witness ==
    /\ saves >= 1
    /\ Len(lastSave) = 2
    /\ lastSave[1].date # lastSave[2].date
    /\ \E k \in 1..2 : /\ lastSave[k].existed
                       /\ DOMAIN lastSave[k].edits # DOMAIN lastSave[k].attendance
    /\ \E m \in 1..Len(frequencies) : frequencies[m].workshopId # lastSave[1].workshopId

\* The cycle as a table: present -> justified -> absent -> present, and a
\* cell with no entry goes to present.
NextOf ==
    [s \in AttendanceStatus \cup {"undefined"} |->
        CASE s = "present"   -> "justified"
          [] s = "justified" -> "absent"
          [] OTHER           -> "present"]

\* The pending edit of a cell, the stored status of a cell, and what the
\* cell stands at: the pending edit if there is one, else the stored status.
PendingOf(changes, b, date) ==
    IF \E k \in 1..Len(changes) : changes[k].date = date /\ b \in DOMAIN changes[k].record
    THEN LET k == CHOOSE k \in 1..Len(changes) :
                     changes[k].date = date /\ b \in DOMAIN changes[k].record
         IN changes[k].record[b]
    ELSE "undefined"
PersistedOf(freqs, w, b, date) ==
    IF \E m \in PositionsOf(freqs, w, date) : b \in DOMAIN freqs[m].attendance
    THEN LET m == CHOOSE m \in PositionsOf(freqs, w, date) : b \in DOMAIN freqs[m].attendance
         IN freqs[m].attendance[b]
    ELSE "undefined"
StandsAt(freqs, w, changes, b, date) ==
    IF PendingOf(changes, b, date) # "undefined" THEN PendingOf(changes, b, date)
    ELSE PersistedOf(freqs, w, b, date)

\* The clicks made on one cell since the grid opened, in order.
ClicksOn(b, date) ==
    SelectSeq(clickLog, LAMBDA c : c.beneficiaryId = b /\ c.date = date)

\* A click sets the pending edit of its cell to the next of what the cell
\* stood at and touches the pending edit of no other cell.
ClickSetsNext ==
    [][clicks' = clicks + 1 =>
        LET c == clickLog'[Len(clickLog')]
            w == workshopForFrequency
        IN /\ PendingOf(attendanceChanges', c.beneficiaryId, c.date) =
                NextOf[StandsAt(frequencies, w, attendanceChanges, c.beneficiaryId, c.date)]
           /\ \A b \in BeneficiaryIds, d \in Dates :
                (b # c.beneficiaryId \/ d # c.date) =>
                    PendingOf(attendanceChanges', b, d) = PendingOf(attendanceChanges, b, d)
    ]_vars

\* A cell that was not clicked since the grid opened has no pending edit.
UnclickedHasNoPendingEdit ==
    \A b \in BeneficiaryIds, d \in Dates :
        ClicksOn(b, d) = <<>> => PendingOf(attendanceChanges, b, d) = "undefined"

\* C28 as stated: every click sets next(current), an unclicked cell has no
\* pending edit, and any three consecutive clicks on a cell return it to what
\* it stood at before them.
C28_ThreeClicksReturn ==
    /\ ClickSetsNext
    /\ [](UnclickedHasNoPendingEdit)
    /\ [](\A b \in BeneficiaryIds, d \in Dates : \A k \in 1..Len(ClicksOn(b, d)) :
            k + 2 <= Len(ClicksOn(b, d)) =>
                ClicksOn(b, d)[k + 2].after = ClicksOn(b, d)[k].before)

\* C28: every click sets next(current), an unclicked cell has no pending edit,
\* and three consecutive clicks on a cell return it to what it stood at before
\* them when it had a status then; a cell with no entry stands at 'absent'
\* after its first three clicks.
C28_ThreeClicksReturnAStatus ==
    /\ ClickSetsNext
    /\ [](UnclickedHasNoPendingEdit)
    /\ [](\A b \in BeneficiaryIds, d \in Dates : \A k \in 1..Len(ClicksOn(b, d)) :
            k + 2 <= Len(ClicksOn(b, d)) =>
                ClicksOn(b, d)[k + 2].after =
                    IF ClicksOn(b, d)[k].before = "undefined" THEN "absent"
                    ELSE ClicksOn(b, d)[k].before)

\* C28 witness: a cell with a stored status was clicked three times and its
\* pending edit is that status again, while another cell of the grid has a
\* stored status and no pending edit.
C28_Witness ==
    /\ workshopForFrequency # "null"
    /\ \E b \in BeneficiaryIds, d \in Dates :
        /\ Len(ClicksOn(b, d)) = 3
        /\ PersistedOf(frequencies, workshopForFrequency, b, d) # "undefined"
        /\ PendingOf(attendanceChanges, b, d) =
                PersistedOf(frequencies, workshopForFrequency, b, d)
        /\ \E b2 \in BeneficiaryIds :
            /\ b2 # b
            /\ PersistedOf(frequencies, workshopForFrequency, b2, d) # "undefined"
            /\ PendingOf(attendanceChanges, b2, d) = "undefined"

\* ================================================================== the registry
\* The beneficiaries collection under the operations of the Beneficiaries
\* tab: the form, delete, CSV import and the regeneration of registrations.

\* triggerImport('beneficiaries') and the file read: handleImportCsv(text, type).
ImportCsv ==
    /\ Idle
    /\ \E rows \in CsvFiles :
          /\ Len(rows) <= Len(UnusedImportIds(beneficiaries))
          /\ LET done == handleImportCsv(beneficiaries, rows)
             IN /\ beneficiaries' = done.beneficiaries
                /\ Ran("handleImportCsv", done.toast # "error", done.toast)
    /\ UNCHANGED <<educators, workshops, scheduledMessages, modal, downloads, document>>
    /\ UNCHANGED <<cvars, avars, pvars, evars>>

\* onRegenerate and the confirmation.
RegenerateRegistrations ==
    /\ Idle
    /\ beneficiaries' = handleRegenerateRegistrations(beneficiaries)
    /\ Ran("handleRegenerateRegistrations", TRUE, "success")
    /\ UNCHANGED <<educators, workshops, scheduledMessages, modal, downloads, document>>
    /\ UNCHANGED <<cvars, avars, pvars, evars>>

NextRegistry ==
    \/ OpenBeneficiaryModal
    \/ BeneficiaryChangeCpf
    \/ BeneficiarySubmit
    \/ CloseModal
    \/ DeleteBeneficiary
    \/ ImportCsv
    \/ RegenerateRegistrations

SpecRegistry == InitData /\ [][NextRegistry]_vars

\* C24: no two beneficiaries of the collection have the same CPF.
C24_CpfsPairwiseDistinct ==
    \A m, n \in 1..Len(beneficiaries) :
        beneficiaries[m].cpf = beneficiaries[n].cpf => m = n

\* ================================================================== references
\* The collections under the operations that write workshop and educator ids.

NextReferences ==
    \/ OpenBeneficiaryModal
    \/ BeneficiaryChangeCpf
    \/ BeneficiaryWorkshopChange
    \/ BeneficiarySubmit
    \/ CloseModal
    \/ SaveWorkshop
    \/ DeleteWorkshop
    \/ DeleteEducator
    \/ OpenTransferModal
    \/ TransferWorkshopChange
    \/ TransferSubmit
    \/ OpenEnrollModal
    \/ EnrollSelect
    \/ EnrollSubmit
    \/ ClearData

SpecReferences == InitData /\ [][NextReferences]_vars

\* C25: every id in a beneficiary's workshopIds is the id of a workshop of the
\* collection, and every non-empty educatorId of a workshop is the id of an
\* educator of the collection.
C25_ReferencesStayValid ==
    /\ \A k \in 1..Len(beneficiaries) : \A n \in 1..Len(beneficiaries[k].workshopIds) :
            beneficiaries[k].workshopIds[n] \in IdsOf(workshops)
    /\ \A k \in 1..Len(workshops) :
            workshops[k].educatorId # "" => workshops[k].educatorId \in IdsOf(educators)

\* ================================================================== AuthGate
\* AuthGate with Supabase configured: the session check of its effect, the
\* auth-state-change callback, and the forms it renders while not authed.

\* Most callbacks the Supabase client makes by itself.
MaxAuthEvents == 3

\* The events the client reports by itself; the ones that follow a call of
\* AuthGate (SIGNED_IN, USER_UPDATED, SIGNED_OUT) come with that call.
ClientEvents == {"INITIAL_SESSION", "TOKEN_REFRESHED", "PASSWORD_RECOVERY"}

\* The callback given to supabase.auth.onAuthStateChange: what it sets.
onAuthStateChange(event, hasSession, reset, shownInfo, shownError) ==
    IF event = "PASSWORD_RECOVERY"
    THEN [authed |-> FALSE, isPasswordResetMode |-> TRUE, info |-> "recover", error |-> "null"]
    ELSE [authed |-> hasSession, isPasswordResetMode |-> reset, info |-> shownInfo, error |-> shownError]

\* What AuthGate renders.
Rendered ==
    IF loading THEN "loading"
    ELSE IF ~authed THEN (IF isPasswordResetMode THEN "newPasswordForm" ELSE "loginForm")
    ELSE "children"

notAuth == <<cvars, avars, pvars, dvars, xvars, gvars, mvars, kvars>>

\* checkSession: getSession() answers with the session the client holds.
GetSessionSettle ==
    /\ authCall = "getSession"
    /\ authed' = session
    /\ loading' = FALSE
    /\ authCall' = "none"
    /\ UNCHANGED <<isPasswordResetMode, info, authError, session, recovering, authEvents, notAuth>>

\* The client calls the callback by itself. A recovery link signs its user
\* in, so PASSWORD_RECOVERY comes with a session; a token is refreshed only
\* for a session.
AuthStateChange ==
    /\ authEvents < MaxAuthEvents
    /\ \E event \in ClientEvents :
          /\ event = "TOKEN_REFRESHED" => session
          /\ session' = (session \/ event = "PASSWORD_RECOVERY")
          /\ LET set == onAuthStateChange(event, session', isPasswordResetMode, info, authError)
             IN /\ authed' = set.authed
                /\ isPasswordResetMode' = set.isPasswordResetMode
                /\ info' = set.info
                /\ authError' = set.error
          /\ recovering' = (recovering \/ event = "PASSWORD_RECOVERY")
    /\ authEvents' = authEvents + 1
    /\ UNCHANGED <<loading, authCall, notAuth>>

\* handleLoginSupabase and handleSignupSupabase up to their await, e-mail and
\* password filled in or not.
LoginStart ==
    /\ Rendered = "loginForm"
    /\ authCall = "none"
    /\ \E call \in {"signInWithPassword", "signUp"}, filled \in BOOLEAN :
          /\ authCall' = IF filled THEN call ELSE "none"
          /\ authError' = IF filled THEN "null" ELSE "fill"
    /\ info' = "null"
    /\ UNCHANGED <<loading, authed, isPasswordResetMode, session, recovering, authEvents, notAuth>>

\* The answer to signInWithPassword or signUp: an error, a session, or (for
\* signUp) an account that waits for its e-mail to be confirmed. A session
\* comes with the SIGNED_IN callback.
LoginSettle ==
    /\ authCall \in {"signInWithPassword", "signUp"}
    /\ \E answer \in {"error", "session", "unconfirmed"} :
          /\ answer = "unconfirmed" => authCall = "signUp"
          /\ session' = (session \/ answer = "session")
          /\ authed' = IF answer = "session" THEN TRUE ELSE authed
          /\ authError' = IF answer = "error" THEN "message" ELSE authError
          /\ info' = IF answer = "unconfirmed" THEN "created" ELSE info
          /\ recovering' = (recovering /\ answer # "session")
    /\ authCall' = "none"
    /\ UNCHANGED <<loading, isPasswordResetMode, authEvents, notAuth>>

\* handleSubmitNewPassword up to its await: a password shorter than six
\* characters is refused, any other is sent with updateUser.
SubmitNewPasswordStart ==
    /\ Rendered = "newPasswordForm"
    /\ authCall = "none"
    /\ \E longEnough \in BOOLEAN :
          /\ authCall' = IF longEnough THEN "updateUser" ELSE "none"
          /\ authError' = IF longEnough THEN "null" ELSE "short"
          /\ recovering' = (recovering /\ ~longEnough)
    /\ info' = "null"
    /\ UNCHANGED <<loading, authed, isPasswordResetMode, session, authEvents, notAuth>>

\* The answer to updateUser: an error, or the user updated, which comes with
\* the USER_UPDATED callback; then signOut is called.
UpdateUserSettle ==
    /\ authCall = "updateUser"
    /\ \E ok \in BOOLEAN :
          /\ ok => session
          /\ authed' = IF ok THEN onAuthStateChange("USER_UPDATED", session,
                                    isPasswordResetMode, info, authError).authed
                       ELSE authed
          /\ authError' = IF ok THEN authError ELSE "message"
          /\ info' = IF ok THEN "updated" ELSE info
          /\ isPasswordResetMode' = (isPasswordResetMode /\ ~ok)
          /\ authCall' = IF ok THEN "signOut" ELSE "none"
    /\ UNCHANGED <<loading, session, recovering, authEvents, notAuth>>

\* signOut done: the client drops its session and reports SIGNED_OUT.
SignOutSettle ==
    /\ authCall = "signOut"
    /\ session' = FALSE
    /\ authed' = onAuthStateChange("SIGNED_OUT", FALSE, isPasswordResetMode, info, authError).authed
    /\ authCall' = "none"
    /\ UNCHANGED <<loading, isPasswordResetMode, info, authError, recovering, authEvents, notAuth>>

\* The page loads with the client holding a stored session or none; the
\* effect has called getSession and subscribed.
InitAuth ==
    /\ ConflictIdle
    /\ AttendanceIdle
    /\ PersistenceIdle
    /\ DataIdle
    /\ ExternalIdle
    /\ GridIdle
    /\ MessagesIdle
    /\ CountsIdle
    /\ loading = TRUE
    /\ authed = FALSE
    /\ isPasswordResetMode = FALSE
    /\ info = "null"
    /\ authError = "null"
    /\ session \in BOOLEAN
    /\ authCall = "getSession"
    /\ recovering = FALSE
    /\ authEvents = 0

NextAuth ==
    \/ GetSessionSettle
    \/ AuthStateChange
    \/ LoginStart
    \/ LoginSettle
    \/ SubmitNewPasswordStart
    \/ UpdateUserSettle
    \/ SignOutSettle

SpecAuth == InitAuth /\ [][NextAuth]_vars

\* C26: from a PASSWORD_RECOVERY event until a new password is submitted or a
\* login succeeds, authed is false.
C26_RecoveryKeepsGateClosed == recovering => ~authed

\* ================================================================== messages
\* The scheduled messages under the Communication tab's operations.

\* Most operations on the messages.
MaxMessageOps == 5

MessageStatus == {"Agendado", "Enviando", "Enviado", "Cancelado", "Falhou"}

\* The recipients CommunicationTab.handleSubmit hands over: everyone, or the
\* beneficiaries of the selected workshops (here one workshop).
Requests == {[type |-> "all", ids |-> <<>>]} \cup
            {[type |-> "workshop", ids |-> <<w>>] : w \in {"w1", "w2"}}

\* b.phone: b2 has none.
phone(id) == IF id = "b2" THEN "" ELSE "85999990001"

\* id: `msg-${Date.now()}`, later than every id given before.
NewMessageId(msgs) == Len(msgs) + 1

\* handleScheduleMessage
handleScheduleMessage(msgs, message) ==
    Append(msgs, [id |-> NewMessageId(msgs), recipients |-> message, status |-> "Agendado"])

\* The recipients handleSendMessageNow finds: beneficiaries with a phone,
\* all of them or those of the selected workshops.
recipientsOf(bens, message) ==
    SelectSeq(bens, LAMBDA b :
        /\ phone(b.id) # ""
        /\ \/ message.type = "all"
           \/ /\ message.type = "workshop"
              /\ \E n \in 1..Len(b.workshopIds) : Includes(message.ids, b.workshopIds[n]))

\* A send that does not look at the recipients.
handleSendMessageNowToNobody(msgs, bens, message) ==
    [messages |-> Append(msgs, [id |-> NewMessageId(msgs), recipients |-> message,
                                status |-> "Enviando"]),
     messageToSend |-> NewMessageId(msgs), sent |-> TRUE, toast |-> "none"]

\* handleSendMessageNow: with no recipient a warning and nothing else; else
\* the message is added as 'Enviando' and the sender modal opens on it.
handleSendMessageNow(msgs, bens, message) ==
    IF Len(recipientsOf(bens, message)) = 0
    THEN [messages |-> msgs, messageToSend |-> 0, sent |-> FALSE, toast |-> "warning"]
    ELSE [messages |-> Append(msgs, [id |-> NewMessageId(msgs), recipients |-> message,
                                     status |-> "Enviando"]),
          messageToSend |-> NewMessageId(msgs), sent |-> TRUE, toast |-> "none"]

\* handleCancelMessage and handleMessageSendingComplete
handleCancelMessage(msgs, id) ==
    [k \in 1..Len(msgs) |-> IF msgs[k].id = id THEN [msgs[k] EXCEPT !.status = "Cancelado"] ELSE msgs[k]]
handleMessageSendingComplete(msgs, messageId) ==
    [k \in 1..Len(msgs) |-> IF msgs[k].id = messageId THEN [msgs[k] EXCEPT !.status = "Enviado"] ELSE msgs[k]]

notMessages == <<beneficiaries, educators, workshops, modal, downloads, document,
                 cvars, avars, pvars, xvars, gvars, uvars, kvars>>

\* The form of the tab can be used: the sender modal is not over it.
FormFree == messageToSend = 0 /\ ops < MaxMessageOps

\* CommunicationTab.handleSubmit(false)
ScheduleMessage ==
    /\ FormFree
    /\ \E message \in Requests :
          /\ scheduledMessages' = handleScheduleMessage(scheduledMessages, message)
          /\ lastRequest' = message
    /\ Ran("handleScheduleMessage", TRUE, "success")
    /\ UNCHANGED <<messageToSend, notMessages>>

\* CommunicationTab.handleSubmit(true)
SendMessageNow ==
    /\ FormFree
    /\ \E message \in Requests :
          LET done == handleSendMessageNow(scheduledMessages, beneficiaries, message)
          IN /\ scheduledMessages' = done.messages
             /\ messageToSend' = done.messageToSend
             /\ lastRequest' = message
             /\ Ran("handleSendMessageNow", done.sent, IF done.sent THEN toast ELSE done.toast)
    /\ UNCHANGED notMessages

\* The Cancelar button, shown on a message whose status is 'Agendado'.
CancelMessage ==
    /\ FormFree
    /\ \E k \in 1..Len(scheduledMessages) :
          /\ scheduledMessages[k].status = "Agendado"
          /\ scheduledMessages' = handleCancelMessage(scheduledMessages, scheduledMessages[k].id)
    /\ Ran("handleCancelMessage", TRUE, "info")
    /\ UNCHANGED <<messageToSend, lastRequest, notMessages>>

\* MessageSenderModal.handleFinish: onComplete(message.id), then onClose.
MessageSendingComplete ==
    /\ messageToSend # 0
    /\ ops < MaxMessageOps
    /\ scheduledMessages' = handleMessageSendingComplete(scheduledMessages, messageToSend)
    /\ messageToSend' = 0
    /\ Ran("handleMessageSendingComplete", TRUE, "success")
    /\ UNCHANGED <<lastRequest, notMessages>>

InitMessages ==
    /\ ConflictIdle
    /\ AttendanceIdle
    /\ PersistenceIdle
    /\ ExternalIdle
    /\ LaterIdle
    /\ beneficiaries = InitialBeneficiaries
    /\ educators = InitialEducators
    /\ workshops = InitialWorkshops
    /\ scheduledMessages = <<>>
    /\ modal = NoModal
    /\ toast = "none"
    /\ downloads = <<>>
    /\ document = NoDocument
    /\ lastOp = [op |-> "none", ok |-> TRUE]
    /\ ops = 0

NextMessages ==
    \/ ScheduleMessage
    \/ SendMessageNow
    \/ CancelMessage
    \/ MessageSendingComplete

SpecMessages == InitMessages /\ [][NextMessages]_vars

\* The beneficiaries a message can go to.
Eligible(message) ==
    {k \in 1..Len(beneficiaries) :
        /\ phone(beneficiaries[k].id) # ""
        /\ \/ message.type = "all"
           \/ \E n \in 1..Len(beneficiaries[k].workshopIds), m \in 1..Len(message.ids) :
                 beneficiaries[k].workshopIds[n] = message.ids[m]}

\* C29: a message is created as 'Agendado' by a schedule and as 'Enviando' by
\* a send-now that has a recipient; a send-now with no eligible recipient adds
\* none; a status changes only from 'Agendado' to 'Cancelado' or from
\* 'Enviando' to 'Enviado'; no message is removed and none is ever 'Falhou'.
C29_StatusTransitions ==
    /\ [][/\ Len(scheduledMessages') >= Len(scheduledMessages)
          /\ \A k \in 1..Len(scheduledMessages) :
                /\ scheduledMessages'[k].id = scheduledMessages[k].id
                /\ \/ scheduledMessages'[k].status = scheduledMessages[k].status
                   \/ <<scheduledMessages[k].status, scheduledMessages'[k].status>> \in
                        {<<"Agendado", "Cancelado">>, <<"Enviando", "Enviado">>}
          /\ Len(scheduledMessages') =
                Len(scheduledMessages) +
                    (IF \/ lastOp'.op = "handleScheduleMessage"
                        \/ lastOp'.op = "handleSendMessageNow" /\ Eligible(lastRequest') # {}
                     THEN 1 ELSE 0)
          /\ \A k \in (Len(scheduledMessages) + 1)..Len(scheduledMessages') :
                scheduledMessages'[k].status =
                    IF lastOp'.op = "handleScheduleMessage" THEN "Agendado" ELSE "Enviando"
       ]_vars
    /\ [](\A k \in 1..Len(scheduledMessages) : scheduledMessages[k].status # "Falhou")

\* C29 witness: one message was scheduled and cancelled, another was sent and
\* finished, and a send-now that found no recipient has just been refused.
C29_Witness ==
    /\ \E k \in 1..Len(scheduledMessages) : scheduledMessages[k].status = "Cancelado"
    /\ \E k \in 1..Len(scheduledMessages) : scheduledMessages[k].status = "Enviado"
    /\ lastOp = [op |-> "handleSendMessageNow", ok |-> FALSE]
    /\ Eligible(lastRequest) = {}

\* ================================================================== conflict counts
\* The number of beneficiaries with conflicting workshops, as the Dashboard
\* and as the Beneficiaries tab compute it.

\* Longest workshop list and longest enrollment list the counts are taken over.
MaxWorkshops == 3
MaxEnrolled == 2

\* Workshops with overlapping hours on a shared day (ws1 and ws3, ws2 and
\* ws3) and with touching hours (ws1 and ws2).
CountCatalog == {Catalog[1], Catalog[2], Catalog[3]}

RECURSIVE SeqsUpTo(_, _)
SeqsUpTo(S, n) ==
    IF n = 0 THEN { <<>> }
    ELSE SeqsUpTo(S, n - 1) \cup
         { Append(l, x) : l \in { y \in SeqsUpTo(S, n - 1) : Len(y) = n - 1 }, x \in S }

\* findConflictingWorkshops as a function of its argument: the pairs the two
\* loops push, in their order.
RECURSIVE InnerLoop(_, _, _)
InnerLoop(selected, m, n) ==
    IF n > Len(selected) THEN <<>>
    ELSE LET w1 == selected[m]
             w2 == selected[n]
             time1 == parseTime(w1.time)
             time2 == parseTime(w2.time)
             pushed == IF /\ ~time1.null /\ ~time2.null
                          /\ hasDayConflict(w1, w2)
                          /\ hasTimeConflict(time1, time2)
                       THEN << <<w1, w2>> >> ELSE <<>>
         IN pushed \o InnerLoop(selected, m, n + 1)
RECURSIVE OuterLoop(_, _)
OuterLoop(selected, m) ==
    IF m > Len(selected) THEN <<>>
    ELSE InnerLoop(selected, m, m + 1) \o OuterLoop(selected, m + 1)
findConflictingWorkshops(selected) ==
    IF Len(selected) < 2 THEN <<>> ELSE OuterLoop(selected, 1)

\* workshops.filter(w => b.workshopIds.includes(w.id))
enrolledWorkshops(ws, b) == SelectSeq(ws, LAMBDA w : Includes(b.workshopIds, w.id))

\* Dashboard: beneficiariesWithConflicts, a Set of ids, and its size.
beneficiariesWithConflicts(bens, ws) ==
    {bens[k].id : k \in {n \in 1..Len(bens) :
                            Len(findConflictingWorkshops(enrolledWorkshops(ws, bens[n]))) > 0}}

\* A conflict map that wants more than two enrolled workshops.
beneficiaryConflictsOverTwo(bens, ws) ==
    {bens[k].id : k \in {n \in 1..Len(bens) :
        /\ Len(enrolledWorkshops(ws, bens[n])) > 2
        /\ Len(findConflictingWorkshops(enrolledWorkshops(ws, bens[n]))) > 0}}

\* BeneficiariesTab: the keys of beneficiaryConflicts, a Map by id.
beneficiaryConflicts(bens, ws) ==
    {bens[k].id : k \in {n \in 1..Len(bens) :
        /\ Len(enrolledWorkshops(ws, bens[n])) > 1
        /\ Len(findConflictingWorkshops(enrolledWorkshops(ws, bens[n]))) > 0}}

notCounts == <<cvars, avars, pvars, dvars, xvars, gvars, uvars, mvars>>

\* The Dashboard renders: alerts.conflicts.
ShowDashboard ==
    /\ alerts = -1
    /\ alerts' = Cardinality(beneficiariesWithConflicts(beneficiaries, workshops))
    /\ UNCHANGED <<summaryStats, notCounts>>

\* The Beneficiaries tab renders: summaryStats.conflicts.
ShowBeneficiariesTab ==
    /\ summaryStats = -1
    /\ summaryStats' = Cardinality(beneficiaryConflicts(beneficiaries, workshops))
    /\ UNCHANGED <<alerts, notCounts>>

\* Any workshop list, a beneficiary with any enrollment list over the
\* catalog's ids, and one enrolled in nothing or in everything.
InitCounts ==
    /\ ConflictIdle
    /\ AttendanceIdle
    /\ PersistenceIdle
    /\ ExternalIdle
    /\ LaterIdle
    /\ workshops \in SeqsUpTo(CountCatalog, MaxWorkshops)
    /\ \E ids1 \in SeqsUpTo({w.id : w \in CountCatalog}, MaxEnrolled),
          ids2 \in {<<>>, <<"ws1", "ws2", "ws3">>} :
            beneficiaries = << [id |-> "b1", workshopIds |-> ids1],
                               [id |-> "b2", workshopIds |-> ids2] >>
    /\ educators = <<>>
    /\ scheduledMessages = <<>>
    /\ modal = NoModal
    /\ toast = "none"
    /\ downloads = <<>>
    /\ document = NoDocument
    /\ lastOp = [op |-> "none", ok |-> TRUE]
    /\ ops = 0

NextCounts ==
    \/ ShowDashboard
    \/ ShowBeneficiariesTab

SpecCounts == InitCounts /\ [][NextCounts]_vars

\* A beneficiary is enrolled in two workshops of the list, at two places of
\* it, that share a day and whose hours overlap.
InConflict(b) ==
    \E m, n \in 1..Len(workshops) :
        /\ m < n
        /\ Includes(b.workshopIds, workshops[m].id)
        /\ Includes(b.workshopIds, workshops[n].id)
        /\ ~parseTime(workshops[m].time).null
        /\ ~parseTime(workshops[n].time).null
        /\ \E d \in 1..Len(workshops[m].days) : Includes(workshops[n].days, workshops[m].days[d])
        /\ parseTime(workshops[m].time).start < parseTime(workshops[n].time).end
        /\ parseTime(workshops[n].time).start < parseTime(workshops[m].time).end

\* C30: the count the Dashboard shows and the count the Beneficiaries tab
\* shows are each the number of beneficiaries in conflict, so they are equal.
C30_CountsAgree ==
    LET inConflict == Cardinality({k \in 1..Len(beneficiaries) : InConflict(beneficiaries[k])})
    IN /\ alerts # -1 => alerts = inConflict
       /\ summaryStats # -1 => summaryStats = inConflict
       /\ (alerts # -1 /\ summaryStats # -1) => alerts = summaryStats

\* C30 witness: both counts were shown for data in which one beneficiary is in
\* conflict and the other, enrolled in workshops too, is not.
C30_Witness ==
    /\ alerts = 1
    /\ summaryStats = 1
    /\ \A k \in 1..Len(beneficiaries) : Len(enrolledWorkshops(workshops, beneficiaries[k])) > 0

====
